---- MODULE Spec2Model ----
(***************************************************************************)
(* Model of the reaction-driven task reconciliation of slacker             *)
(* (app/src/sockets/slack_bot.rs and the repositories it calls).           *)
(*                                                                         *)
(* The persistent stores are the tables `messages`, `tasks` and             *)
(* `link_rows`; a row's id is its position in the table (rows are never    *)
(* deleted).  Every `.await` that reads or writes a mutable store is one   *)
(* atomic step of the process that runs it.  The workspace of the bot is   *)
(* W; most specifications have one gateway (Slack) message, SpecPasses has *)
(* two and SpecWorkspaces has one of a second workspace.                   *)
(*                                                                         *)
(* Specifications: Spec (live handler and syncs interleaved), SpecReplay,   *)
(* SpecConverge (with the periodic loop), SpecBackfill (one process at a    *)
(* time), SpecClient and SpecClientFair (the connection of SlackBot::start  *)
(* and the Status Registry of core/bot_status.rs), SpecDerive (the status   *)
(* derivation alone), SpecUnits and SpecUnitsFair (the client with the      *)
(* tasks it spawns, up to the exit of the process), SpecPasses and          *)
(* SpecPassesFair (the periodic loop with its failures), SpecSyncs (the     *)
(* syncs and the registry), SpecWorkspaces (rows of two workspaces),        *)
(* SpecSetup (spawn_bot of core/state.rs), SpecLinks (the requests of       *)
(* repos/workspace_links.rs), SpecRace and SpecRaceFair (a pass against    *)
(* the live handler), SpecRegistry (the calls of core/bot_status.rs, their *)
(* results kept in `snap`), SpecPages and SpecPagesFair (the paging of      *)
(* fetch_channel_messages_with_reactions, in `pager`), SpecCredit (who is  *)
(* credited, over the reaction lists of the wire).  `changes` is the table *)
(* of repos/changes.rs, which no handler writes.                           *)
(***************************************************************************)
EXTENDS Integers, Sequences, FiniteSets, TLC

(***************************************************************************)
(* Bounds of the model.                                                    *)
(***************************************************************************)
MaxInputs == 3
MaxReplayInputs == 5
MaxConvergeInputs == 3
MaxLen == 3
MaxBackfillInputs == 3
MaxFrames == 3
MaxHandshakes == 2
MaxUnitInputs == 2
MaxPassInputs == 3
MaxSyncInputs == 4
MaxWorkspaceInputs == 2
MaxSpawns == 1
MaxLinkCalls == 3
MaxRaceInputs == 2
MaxRegistryCalls == 4
MaxCreditInputs == 3

None == "None"

(***************************************************************************)
(* models/workspace_settings.rs: EmojiMappings::default_mappings.          *)
(***************************************************************************)
default_mappings ==
    [in_progress |-> <<"eyes">>,
     blocked     |-> <<"arrows_counterclockwise", "loading", "hourglass">>,
     completed   |-> <<"white_check_mark", "heavy_check_mark">>]

Contains(seq, x) == \E i \in DOMAIN seq : seq[i] = x

\* slack_bot.rs emoji_to_status: Option<TaskStatus>, in_progress checked first.
emoji_to_status(emoji, mappings) ==
    IF Contains(mappings.in_progress, emoji) THEN "InProgress"
    ELSE IF Contains(mappings.blocked, emoji) THEN "Blocked"
    ELSE IF Contains(mappings.completed, emoji) THEN "Completed"
    ELSE None

\* slack_bot.rs map_reactions_to_status: the HashSet of the mapped statuses.
map_reactions_to_status(reactions, mappings) ==
    {emoji_to_status(reactions[i].name, mappings) : i \in DOMAIN reactions} \ {None}

\* A plausible slip: Blocked tested before Completed.
eval_status_blocked_first(statuses) ==
    IF "Blocked" \in statuses THEN "Blocked"
    ELSE IF "Completed" \in statuses THEN "Completed"
    ELSE IF "InProgress" \in statuses THEN "InProgress"
    ELSE "Blank"

\* services/slack_service.rs eval_status_from_reactions.
eval_status_from_reactions(statuses) ==
    IF "Completed" \in statuses THEN "Completed"
    ELSE IF "Blocked" \in statuses THEN "Blocked"
    ELSE IF "InProgress" \in statuses THEN "InProgress"
    ELSE "Blank"

(***************************************************************************)
(* The population.  Slack member ids U, V, X; U and V have a Person row,   *)
(* X has none.  Person ids differ from member ids.  U and X write          *)
(* messages, V and X react to them.                                        *)
(***************************************************************************)
Authors == {"U", "X"}
Reactors == {"V", "X"}
persons == {[id |-> "pU", external_id |-> "U"], [id |-> "pV", external_id |-> "V"]}

\* repos/persons.rs get_by_external_id: the Person's id, or None (RecordNotFound).
get_by_external_id(external_id) ==
    IF \E p \in persons : p.external_id = external_id
    THEN (CHOOSE p \in persons : p.external_id = external_id).id
    ELSE None

\* The emoji names used at the gateway: one per category and one unmapped.
Emojis == {"eyes", "hourglass", "white_check_mark", "tada"}

\* The gateway's messages: workspace, channel, timestamp and text.  m1 is the
\* message of most specifications; m2 is a later message of the same channel,
\* b1 a message of another workspace whose channel and timestamp equal m1's.
\* W is the workspace_name of the SlackBot that runs the syncs and the loop.
\* The gateway holds the messages of DOMAIN reactions.
GMsgs == {"m1"}
W == "W"
WorkspaceOf(m) == IF m = "b1" THEN "B" ELSE "W"
ChannelOf(m) == "C1"
TsOf(m) == IF m = "m2" THEN "t2" ELSE "t1"
TextOf(m) == <<"text of", m>>

\* slack_bot.rs: format!("slack:{}:{}", channel, ts).
message_external_id(channel, ts) == <<"slack", channel, ts>>

\* A plausible slip: only the first reaction is looked at.
first_reactor_of_head(reactions) ==
    IF reactions = <<>> \/ Head(reactions).users = <<>> THEN None
    ELSE Head(reactions).users[1]

\* find_map(|r| r.users.first()): the first user of the first reaction that has one.
RECURSIVE first_reactor(_)
first_reactor(reactions) ==
    IF reactions = <<>> THEN None
    ELSE IF Head(reactions).users # <<>> THEN Head(reactions).users[1]
    ELSE first_reactor(Tail(reactions))

VARIABLES
    messages,    \* table messages: Seq of [content, external_id, channel, timestamp,
                 \*                         person_id]
    tasks,       \* table tasks: Seq of [status, assigned_to, assigned_by, message_id]
    links,       \* workspace link of each Person: "none" | "unlinked" | "linked"
    author,      \* gateway: the author (member id) of each message
    reactions,   \* gateway: the current reaction list of each message
    live,        \* the Protocol Client's event handler (one event at a time)
    hist,        \* the historical syncs: start-up, link-triggered, periodic scan
    per,         \* run_periodic_sync of the periodic loop
    budget,      \* the inputs (events, gateway changes, failures, syncs) still to come
    replay,      \* the live run in progress or just ended, while nothing else has acted
    derive,      \* the input and the result of a status derivation
    client,      \* the Protocol Client of the workspace: SlackBot::start
    statuses,    \* the Status Registry: BotStatusManager.statuses
    link_rows,   \* table workspace_links: Seq of [person_id, workspace_name,
                 \*     is_linked, is_active, deleted]
    reqs,        \* the calls of WorkspaceLinksRepo in progress, one per request
    pager,       \* fetch_channel_messages_with_reactions of one channel
    changes,     \* table changes: Seq of [old, new, index, task_id]
    snap         \* the last call of the Status Registry and what it returned

vars == <<messages, tasks, links, author, reactions, live, hist, per, budget,
          replay, derive, client, statuses, link_rows, reqs, pager, changes, snap>>


(***************************************************************************)
(* The stores' operations.                                                 *)
(***************************************************************************)
\* repos/messages.rs get_message_by_external_id: .one() of an unordered query;
\* the row it returns is any of the matching rows.
get_message_by_external_id(external_id) ==
    {i \in DOMAIN messages : messages[i].external_id = external_id}

\* repos/messages.rs create: a plain INSERT (the table has no unique index).
MessagesRepo_create(content, external_id, channel, timestamp, person) ==
    Append(messages, [content |-> content, external_id |-> external_id,
                      channel |-> channel, timestamp |-> timestamp,
                      person_id |-> person])

\* A plausible slip: the lookup compares the wrong column and finds nothing.
get_task_by_message_id_none(message_id) == {}

\* repos/tasks.rs get_task_by_message_id: .one() of an unordered query.
get_task_by_message_id(message_id) ==
    {i \in DOMAIN tasks : tasks[i].message_id = message_id}

\* repos/tasks.rs create: a plain INSERT (the table has no unique index).
TasksRepo_create(status, assigned_to, assigned_by, message_id) ==
    Append(tasks, [status |-> status, assigned_to |-> assigned_to,
                   assigned_by |-> assigned_by, message_id |-> message_id])

\* A plausible slip: a task whose status becomes Blank is dropped.
change_status_dropping_blank(rows, task_id, status) ==
    IF status = "Blank"
    THEN SelectSeq(rows, LAMBDA r : r # rows[task_id])
    ELSE [rows EXCEPT ![task_id].status = status]

\* repos/tasks.rs change_status: find_by_id, then UPDATE of the status column.
change_status(rows, task_id, status) ==
    [rows EXCEPT ![task_id].status = status]

\* TasksRepo::change_assigned_by (called by slack_bot.rs): sets assigned_by.
change_assigned_by(rows, task_id, assigned_by) ==
    [rows EXCEPT ![task_id].assigned_by = assigned_by]

\* The arguments and the fetch outcome of the live reconciliation that runs or
\* has just ended, and whether it is the first or a repeated run with these
\* arguments; reset as soon as anything but the live handler acts.
NoReplay == [args |-> <<>>, failed |-> "unknown", run |-> 0]

ReplayStart(args) ==
    IF replay.run > 0 /\ replay.args = args THEN [replay EXCEPT !.run = 2]
    ELSE [args |-> args, failed |-> "unknown", run |-> 1]

ReplayFetched(failed) ==
    IF replay.run = 1 THEN [replay EXCEPT !.failed = failed]
    ELSE IF replay.run = 2 /\ replay.failed = failed THEN replay
    ELSE NoReplay

(***************************************************************************)
(* The gateway (environment): members add and remove reactions.  Delivery  *)
(* of its events is not reliable (an event may be lost, late or repeated,  *)
(* and the message has a history from before the connection), so the live  *)
(* handler is given any event of the event domain at any time.             *)
(***************************************************************************)
ReactionIndex(rs, e) == IF \E i \in DOMAIN rs : rs[i].name = e
                        THEN CHOOSE i \in DOMAIN rs : rs[i].name = e ELSE 0

HasReacted(rs, e, u) ==
    \E i \in DOMAIN rs : rs[i].name = e /\ Contains(rs[i].users, u)

AddReaction(rs, e, u) ==
    IF ReactionIndex(rs, e) = 0 THEN Append(rs, [name |-> e, users |-> <<u>>])
    ELSE [rs EXCEPT ![ReactionIndex(rs, e)].users = Append(@, u)]

SeqWithout(seq, x) == SelectSeq(seq, LAMBDA y : y # x)

RemoveReaction(rs, e, u) ==
    LET i == ReactionIndex(rs, e)
        left == SeqWithout(rs[i].users, u)
    IN  IF left = <<>> THEN SelectSeq(rs, LAMBDA r : r.name # e)
        ELSE [rs EXCEPT ![i].users = left]

\* SlackEvent: a reaction event names the emoji and the reacting member; a
\* message event has a subtype, and one of subtype message_changed embeds a
\* reaction list.
ReactionEventsOn(msgs, E, M) ==
    [kind : {"reaction_added", "reaction_removed"}, subtype : {None}, msg : msgs,
     user : M, reaction : E, reactions : {<<>>}]
ReactionEvents(E, M) == ReactionEventsOn(GMsgs, E, M)
MessageChangedEvents(E, M) ==
    [kind : {"message"}, subtype : {"message_changed"}, msg : GMsgs, user : {None},
     reaction : {None},
     reactions : {<<>>} \cup {<<[name |-> e, users |-> <<u>>]>> : e \in E, u \in M}]
Events(E, M) == ReactionEvents(E, M) \cup MessageChangedEvents(E, M)

GatewayReactionAdded(m, e, u) ==
    /\ budget > 0
    /\ ~HasReacted(reactions[m], e, u)
    /\ reactions' = [reactions EXCEPT ![m] = AddReaction(@, e, u)]
    /\ budget' = budget - 1
    /\ replay' = NoReplay
    /\ UNCHANGED <<messages, tasks, links, author, live, hist, per,
                   derive, client, statuses,
                   link_rows, reqs,
                   pager, changes, snap>>

GatewayReactionRemoved(m, e, u) ==
    /\ budget > 0
    /\ HasReacted(reactions[m], e, u)
    /\ reactions' = [reactions EXCEPT ![m] = RemoveReaction(@, e, u)]
    /\ budget' = budget - 1
    /\ replay' = NoReplay
    /\ UNCHANGED <<messages, tasks, links, author, live, hist, per,
                   derive, client, statuses,
                   link_rows, reqs,
                   pager, changes, snap>>

(***************************************************************************)
(* The live path: handle_event and create_or_update_task.                  *)
(***************************************************************************)
\* get_emoji_mappings: the workspace has no settings row other than the defaults.
get_emoji_mappings == default_mappings

IdleLive(ret, exit) ==
    [pc |-> "idle", msg |-> None, reactor |-> None, trigger |-> None,
     assignee |-> None, assigner_from_event |-> None, message |-> 0, task |-> 0,
     task_assigned_by |-> None, failed |-> FALSE, status |-> "Blank",
     effective_assigner |-> None, ret |-> ret, exit |-> exit, fetched |-> FALSE]

\* fetch_message, lines 510-538, called at lines 422, 453 and 492: the run of
\* the handler has asked the gateway for the message.
Fetched(l) == [l EXCEPT !.fetched = TRUE]

\* A return of create_or_update_task, which is called with a fetched message.
Return(ret, exit) == Fetched(IdleLive(ret, exit))

\* A plausible slip: a link row is enough, whatever its is_linked.
create_or_update_task_begin_any_link(m, reactor_slack_id, trigger_reaction) ==
    LET assignee == get_by_external_id(author[m])
        assigner_from_event == IF reactor_slack_id = None THEN None
                               ELSE get_by_external_id(reactor_slack_id)
    IN  IF assignee = None THEN IdleLive("Ok", "no_person")
        ELSE IF links[assignee] = "none" THEN IdleLive("Ok", "no_link")
        ELSE [IdleLive(None, None) EXCEPT
                 !.pc = "get_message", !.msg = m, !.reactor = reactor_slack_id,
                 !.trigger = trigger_reaction,
                 !.assignee = assignee, !.assigner_from_event = assigner_from_event]

\* create_or_update_task, lines 553-601: the assignee, the assigner carried by
\* the event and the link check; then the run goes on to the message lookup.
create_or_update_task_begin(m, reactor_slack_id, trigger_reaction) ==
    LET assignee == get_by_external_id(author[m])
        assigner_from_event == IF reactor_slack_id = None THEN None
                               ELSE get_by_external_id(reactor_slack_id)
    IN  IF assignee = None THEN IdleLive("Ok", "no_person")
        ELSE IF links[assignee] = "unlinked" THEN IdleLive("Ok", "not_linked")
        ELSE IF links[assignee] = "none" THEN IdleLive("Ok", "no_link")
        ELSE [IdleLive(None, None) EXCEPT
                 !.pc = "get_message", !.msg = m, !.reactor = reactor_slack_id,
                 !.trigger = trigger_reaction,
                 !.assignee = assignee, !.assigner_from_event = assigner_from_event]

\* One event is taken off the connection: the handlers run one at a time.
Deliver(ev) ==
    /\ live.pc = "idle"
    /\ budget > 0
    /\ budget' = budget - 1

\* A plausible slip: every message event is taken for a change of reactions.
is_message_changed_any(ev) == TRUE

\* lines 466-468: `event.subtype.as_deref() != Some("message_changed")`.
is_message_changed(ev) == ev.subtype = "message_changed"

handle_reaction_added(ev) ==
    /\ Deliver(ev)
    /\ ev.kind = "reaction_added"
    /\ IF emoji_to_status(ev.reaction, get_emoji_mappings) = None
       THEN live' = IdleLive("Ok", "ignored") /\ replay' = NoReplay
       ELSE /\ live' = Fetched(create_or_update_task_begin(ev.msg, ev.user, ev.reaction))
            /\ replay' = ReplayStart(<<ev.msg, ev.user, ev.reaction>>)
    /\ UNCHANGED <<messages, tasks, links, author, reactions, hist, per, derive,
                   link_rows, reqs,
                   pager, changes, snap>>

handle_reaction_removed(ev) ==
    /\ Deliver(ev)
    /\ ev.kind = "reaction_removed"
    /\ IF emoji_to_status(ev.reaction, get_emoji_mappings) = None
       THEN live' = IdleLive("Ok", "ignored") /\ replay' = NoReplay
       ELSE /\ live' = Fetched(create_or_update_task_begin(ev.msg, None, None))
            /\ replay' = ReplayStart(<<ev.msg, None, None>>)
    /\ UNCHANGED <<messages, tasks, links, author, reactions, hist, per, derive,
                   link_rows, reqs,
                   pager, changes, snap>>

handle_message_event(ev) ==
    /\ Deliver(ev)
    /\ ev.kind = "message"
    /\ IF ~is_message_changed(ev)
       THEN live' = IdleLive("Ok", "ignored") /\ replay' = NoReplay
       ELSE /\ live' = Fetched(create_or_update_task_begin(
                                   ev.msg, first_reactor(ev.reactions), None))
            /\ replay' = ReplayStart(<<ev.msg, first_reactor(ev.reactions), None>>)
    /\ UNCHANGED <<messages, tasks, links, author, reactions, hist, per, derive,
                   link_rows, reqs,
                   pager, changes, snap>>

\* The handlers called for an event that reaches the client, the connection
\* itself being left out.
OnReactionAdded(ev) == handle_reaction_added(ev) /\ UNCHANGED <<client, statuses>>
OnReactionRemoved(ev) == handle_reaction_removed(ev) /\ UNCHANGED <<client, statuses>>
OnMessageEvent(ev) == handle_message_event(ev) /\ UNCHANGED <<client, statuses>>

\* lines 603-611: the lookup by external id.
LiveGetMessage ==
    /\ live.pc = "get_message"
    /\ LET found == get_message_by_external_id(
                        message_external_id(ChannelOf(live.msg), TsOf(live.msg)))
       IN  \/ \E i \in found : live' = [live EXCEPT !.message = i, !.pc = "get_task"]
           \/ found = {} /\ live' = [live EXCEPT !.pc = "create_message"]
    /\ UNCHANGED <<messages, tasks, links, author, reactions, hist, per, budget, replay,
                   derive, client, statuses,
                   link_rows, reqs,
                   pager, changes, snap>>

\* lines 613-625: the row was not found, it is inserted.
LiveCreateMessage ==
    /\ live.pc = "create_message"
    /\ messages' = MessagesRepo_create(
                       TextOf(live.msg),
                       message_external_id(ChannelOf(live.msg), TsOf(live.msg)),
                       ChannelOf(live.msg), TsOf(live.msg), live.assignee)
    /\ live' = [live EXCEPT !.message = Len(messages'), !.pc = "get_task"]
    /\ UNCHANGED <<tasks, links, author, reactions, hist, per, budget, replay,
                   derive, client, statuses,
                   link_rows, reqs,
                   pager, changes, snap>>

\* lines 613-625: the insert fails in the database and `?` returns the error.
LiveCreateMessageFailed ==
    /\ live.pc = "create_message"
    /\ budget > 0
    /\ budget' = budget - 1
    /\ live' = Return("Err", "create_failed")
    /\ UNCHANGED <<messages, tasks, links, author, reactions, hist, per, replay,
                   derive, client, statuses, link_rows, reqs,
                   pager, changes, snap>>

\* line 636: the task of the message, read before the reactions are fetched.
LiveGetTask ==
    /\ live.pc = "get_task"
    /\ LET found == get_task_by_message_id(live.message)
       IN  \/ \E i \in found :
                 live' = [live EXCEPT !.task = i,
                                      !.task_assigned_by = tasks[i].assigned_by,
                                      !.pc = "fetch_reactions"]
           \/ found = {} /\ live' = [live EXCEPT !.pc = "fetch_reactions"]
    /\ UNCHANGED <<messages, tasks, links, author, reactions, hist, per, budget, replay,
                   derive, client, statuses,
                   link_rows, reqs,
                   pager, changes, snap>>

\* A plausible slip: the triggering emoji is used only when the list is empty.
live_status_fallback_when_empty(rs, trigger_reaction) ==
    LET mappings == get_emoji_mappings
    IN  IF rs = <<>> /\ trigger_reaction # None
           /\ emoji_to_status(trigger_reaction, mappings) # None
        THEN emoji_to_status(trigger_reaction, mappings)
        ELSE eval_status_from_reactions(map_reactions_to_status(rs, mappings))

\* A plausible slip: the triggering emoji is not used as a fallback.
live_status_without_fallback(rs, trigger_reaction) ==
    eval_status_from_reactions(map_reactions_to_status(rs, get_emoji_mappings))

\* lines 652-662: the status of the fetched list, else the triggering emoji's.
live_status(rs, trigger_reaction) ==
    LET mappings == get_emoji_mappings
        status == eval_status_from_reactions(map_reactions_to_status(rs, mappings))
    IN  IF status = "Blank" /\ trigger_reaction # None
           /\ emoji_to_status(trigger_reaction, mappings) # None
        THEN emoji_to_status(trigger_reaction, mappings)
        ELSE status

\* lines 664-671: assigner_from_event.or(assigner_from_reactions).
effective_assigner(assigner_from_event, rs) ==
    LET slack_id == first_reactor(rs)
        assigner_from_reactions == IF slack_id = None THEN None
                                   ELSE get_by_external_id(slack_id)
    IN  IF assigner_from_event # None THEN assigner_from_event
        ELSE assigner_from_reactions

\* lines 638-671: fetch_message_reactions answers with the current list, or
\* fails and the list is empty; status and owner are computed from it.
LiveFetched(rs, failed) ==
    /\ replay' = ReplayFetched(IF failed THEN "yes" ELSE "no")
    /\ live' = [live EXCEPT !.failed = failed,
                            !.status = live_status(rs, live.trigger),
                            !.effective_assigner =
                                effective_assigner(live.assigner_from_event, rs),
                            !.pc = "write_task"]

LiveFetchReactions ==
    /\ live.pc = "fetch_reactions"
    /\ \/ LiveFetched(reactions[live.msg], FALSE) /\ UNCHANGED budget
       \/ /\ budget > 0
          /\ LiveFetched(<<>>, TRUE)
          /\ budget' = budget - 1
    /\ UNCHANGED <<messages, tasks, links, author, reactions, hist, per,
                   derive, client, statuses,
                   link_rows, reqs,
                   pager, changes, snap>>

\* A plausible slip: the status is written although nothing is known about it.
live_skips_status_never(failed, trigger_reaction) == FALSE

\* line 679: no status write when the fetch failed and no emoji triggered the run.
live_skips_status(failed, trigger_reaction) ==
    failed /\ trigger_reaction = None

\* A plausible slip: a task is inserted whatever the status.
live_creates_task_always(status) == TRUE

\* line 701: no task is created for a Blank status.
live_creates_task(status) == status # "Blank"

\* A plausible slip: an owner that could not be resolved is not written.
owner_differs_when_resolved(assigned_by, effective_assigner_id) ==
    effective_assigner_id # None /\ assigned_by # effective_assigner_id

\* line 688: `task.assigned_by != effective_assigner_id`.
owner_differs(assigned_by, effective_assigner_id) == assigned_by # effective_assigner_id

\* lines 673-714: the existing task's status is written (change_assigned_by is
\* a second await, unless the status write is skipped), or a task is created.
LiveWriteTask ==
    /\ live.pc = "write_task"
    /\ IF live.task # 0
       THEN IF live_skips_status(live.failed, live.trigger)
            THEN /\ tasks' = IF owner_differs(live.task_assigned_by, live.effective_assigner)
                             THEN change_assigned_by(tasks, live.task,
                                                     live.effective_assigner)
                             ELSE tasks
                 /\ live' = Return("Ok", "skipped")
            ELSE /\ tasks' = change_status(tasks, live.task, live.status)
                 /\ live' = IF owner_differs(live.task_assigned_by, live.effective_assigner)
                            THEN [live EXCEPT !.pc = "write_owner"]
                            ELSE Return("Ok", "updated")
       ELSE IF live_creates_task(live.status)
            THEN /\ tasks' = TasksRepo_create(live.status, live.assignee,
                                              live.effective_assigner, live.message)
                 /\ live' = Return("Ok", "created")
            ELSE /\ tasks' = tasks
                 /\ live' = Return("Ok", "blank")
    /\ UNCHANGED <<messages, links, author, reactions, hist, per, budget, replay,
                   derive, client, statuses,
                   link_rows, reqs,
                   pager, changes, snap>>

\* lines 689-697: the owner is written when the task read at line 636 had another.
LiveWriteOwner ==
    /\ live.pc = "write_owner"
    /\ tasks' = change_assigned_by(tasks, live.task, live.effective_assigner)
    /\ live' = Return("Ok", "updated")
    /\ UNCHANGED <<messages, links, author, reactions, hist, per, budget, replay,
                   derive, client, statuses,
                   link_rows, reqs,
                   pager, changes, snap>>


(***************************************************************************)
(* The Status Registry: core/bot_status.rs.  `statuses` is the HashMap of   *)
(* BotStatusManager; a time is a number, NoTime where the code has None.    *)
(***************************************************************************)
NoTime == -1
NoStatuses == [w \in {} |-> None]

Insert(ss, w, status) == [x \in DOMAIN ss \cup {w} |-> IF x = w THEN status ELSE ss[x]]

\* A plausible slip: the entry of a disconnected bot is built anew.
set_disconnected_anew(ss, w, error) ==
    Insert(ss, w, [is_connected |-> FALSE, connected_at |-> NoTime,
                   last_heartbeat |-> NoTime, error_message |-> error,
                   is_syncing |-> FALSE, sync_progress |-> None])

\* A plausible slip: the heartbeat of an unknown workspace makes an entry.
heartbeat_upserting(ss, w, now) ==
    IF w \in DOMAIN ss THEN [ss EXCEPT ![w].last_heartbeat = now]
    ELSE Insert(ss, w, [is_connected |-> FALSE, connected_at |-> NoTime,
                        last_heartbeat |-> now, error_message |-> None,
                        is_syncing |-> FALSE, sync_progress |-> None])

\* A plausible slip: the end of a sync leaves the progress text.
set_sync_complete_keeping_progress(ss, w) ==
    IF w \in DOMAIN ss THEN [ss EXCEPT ![w].is_syncing = FALSE] ELSE ss

\* set_connected: a fresh entry replaces whatever was there.
set_connected(ss, w, now) ==
    Insert(ss, w, [is_connected |-> TRUE, connected_at |-> now, last_heartbeat |-> now,
                   error_message |-> None, is_syncing |-> FALSE, sync_progress |-> None])

\* set_disconnected: the entry is updated, or inserted when there is none.
set_disconnected(ss, w, error) ==
    IF w \in DOMAIN ss
    THEN [ss EXCEPT ![w] = [@ EXCEPT !.is_connected = FALSE, !.error_message = error,
                                    !.is_syncing = FALSE, !.sync_progress = None]]
    ELSE Insert(ss, w, [is_connected |-> FALSE, connected_at |-> NoTime,
                        last_heartbeat |-> NoTime, error_message |-> error,
                        is_syncing |-> FALSE, sync_progress |-> None])

\* heartbeat: only an existing entry is touched.
heartbeat(ss, w, now) ==
    IF w \in DOMAIN ss THEN [ss EXCEPT ![w].last_heartbeat = now] ELSE ss

is_connected(ss, w) == IF w \in DOMAIN ss THEN ss[w].is_connected ELSE FALSE

\* get_status: a clone of the entry, taken under the read lock, or nothing.
get_status(ss, w) ==
    IF w \in DOMAIN ss THEN {[workspace_name |-> w, status |-> ss[w]]} ELSE {}

\* get_all_statuses: the clones of all the entries, in no order.
get_all_statuses(ss) == {[workspace_name |-> w, status |-> ss[w]] : w \in DOMAIN ss}

NoSnapshot == [op |-> None, workspace_name |-> None, result |-> {}]

\* set_syncing: only an existing entry is touched.
set_syncing(ss, w, progress) ==
    IF w \in DOMAIN ss
    THEN [ss EXCEPT ![w] = [@ EXCEPT !.is_syncing = TRUE, !.sync_progress = progress]]
    ELSE ss

\* set_sync_complete: only an existing entry is touched.
set_sync_complete(ss, w) ==
    IF w \in DOMAIN ss
    THEN [ss EXCEPT ![w] = [@ EXCEPT !.is_syncing = FALSE, !.sync_progress = None]]
    ELSE ss

(***************************************************************************)
(* The historical sync: perform_initial_sync and create_task_from_history. *)
(* Three instances run it: the one start() spawns, the one the link        *)
(* handler spawns, and the scan at the head of every periodic pass.        *)
(***************************************************************************)
HistProcs == {"startup", "link", "scan"}

IdleHist(ret) ==
    [pc |-> "idle", msg |-> None, rs |-> <<>>, person |-> None, message |-> 0,
     task |-> 0, status |-> "Blank", assigner |-> None, owner_differs |-> FALSE,
     member |-> None, ret |-> ret, exit |-> None]

\* The return of a sync; `member` keeps the user_slack_id the sync ran for and
\* `exit` names the return path.
HistReturn(h, ret, exit) == [IdleHist(ret) EXCEPT !.member = h.member, !.exit = exit]

\* get_by_workspace: the members whose link to the workspace has is_linked.
linked_members ==
    {p.external_id : p \in {q \in persons : links[q.id] = "linked"}}

\* A plausible slip: the page is not filtered by its author.
history_candidates_any_author(user_slack_id) ==
    {m \in DOMAIN reactions :
                   /\ WorkspaceOf(m) = W
                   /\ reactions[m] # <<>>
                   /\ map_reactions_to_status(reactions[m], get_emoji_mappings) # {}}

\* fetch_channel_messages_with_reactions, lines 1120-1129, and the filter of
\* perform_initial_sync, lines 1015-1027: the messages of the page written by
\* the member that carry reactions, at least one of them mapped.  The gateway
\* leaves `reactions` out of a message that has none.
history_candidates(user_slack_id) ==
    {m \in DOMAIN reactions :
                   /\ WorkspaceOf(m) = W
                   /\ author[m] = user_slack_id
                   /\ reactions[m] # <<>>
                   /\ map_reactions_to_status(reactions[m], get_emoji_mappings) # {}}

\* create_task_from_history, lines 1166-1192: the person and the link check.
create_task_from_history_begin(m, rs) ==
    LET person == get_by_external_id(author[m])
    IN  IF person = None THEN IdleHist("Err")
        ELSE IF links[person] # "linked" THEN IdleHist("Err")
        ELSE [IdleHist(None) EXCEPT !.pc = "get_message", !.msg = m, !.rs = rs,
                                    !.person = person]

\* lines 1010-1039: the messages of the member's page, one call each.
sync_member_page(user_slack_id, candidates) ==
    IF candidates = {}
    THEN {[IdleHist("Ok") EXCEPT !.member = user_slack_id]}
    ELSE {[create_task_from_history_begin(m, reactions[m])
              EXCEPT !.member = user_slack_id] : m \in candidates}

\* perform_initial_sync, lines 969-974 and 1002-1004: set_syncing before the
\* channels are fetched and at every channel; lines 1054-1056, and 915-918 of
\* perform_initial_sync_for_all_users: set_sync_complete before the return.
sync_started(p) ==
    IF hist'[p].pc = "idle"
    THEN set_sync_complete(set_syncing(statuses, W, "Scanning channel"), W)
    ELSE set_syncing(statuses, W, "Scanning channel")

\* A plausible slip: the sync returns without clearing the flag.
sync_stepped_keeping(p) == statuses

\* lines 1054-1056: set_sync_complete when the last message was handled.
sync_stepped(p) ==
    IF hist'[p].pc = "idle" THEN set_sync_complete(statuses, W) ELSE statuses

\* perform_initial_sync for one member: the channels, the page of the channel
\* and the first call of create_task_from_history.
perform_initial_sync(p, user_slack_id) ==
    \E h \in sync_member_page(user_slack_id, history_candidates(user_slack_id)) :
       hist' = [hist EXCEPT ![p] = h]

\* perform_initial_sync_for_all_users: perform_initial_sync for every linked
\* member in turn; the gateway's message is on the page of its author only.
perform_initial_sync_for_all_users(p) ==
    LET candidates == UNION {history_candidates(u) : u \in linked_members}
    IN  \/ \E u \in linked_members :
              /\ history_candidates(u) # {}
              /\ perform_initial_sync(p, u)
        \/ /\ candidates = {}
           /\ hist' = [hist EXCEPT ![p] = IdleHist("Ok")]

\* start(), lines 220-235: the sync spawned when the connection is up.
StartupSync ==
    /\ hist["startup"].pc = "idle"
    /\ budget > 0
    /\ budget' = budget - 1
    /\ perform_initial_sync_for_all_users("startup")
    /\ statuses' = sync_started("startup")
    /\ replay' = NoReplay
    /\ UNCHANGED <<messages, tasks, links, author, reactions, live, per,
                   derive, client,
                   link_rows, reqs,
                   pager, changes, snap>>

\* handlers/workspaces.rs link_workspace: the link is set and a sync of the
\* member is spawned.
LinkWorkspace(person) ==
    /\ hist["link"].pc = "idle"
    /\ budget > 0
    /\ budget' = budget - 1
    /\ links' = [links EXCEPT ![person.id] = "linked"]
    /\ hist' = [hist EXCEPT !["link"] =
                   [IdleHist(None) EXCEPT !.pc = "spawned", !.msg = person.external_id,
                                          !.member = person.external_id]]
    /\ replay' = NoReplay
    /\ UNCHANGED <<messages, tasks, author, reactions, live, per,
                   derive, client, statuses,
                   link_rows, reqs,
                   pager, changes, snap>>

LinkSync ==
    /\ hist["link"].pc = "spawned"
    /\ perform_initial_sync("link", hist["link"].msg)
    /\ statuses' = sync_started("link")
    /\ replay' = NoReplay
    /\ UNCHANGED <<messages, tasks, links, author, reactions, live, per, budget,
                   derive, client,
                   link_rows, reqs,
                   pager, changes, snap>>

\* perform_initial_sync_for_all_users, lines 899-946: get_by_workspace fails
\* (set_sync_complete), or fetch_channels fails in the sync of a member
\* (lines 977-986: set_sync_complete, Err; lines 927-932: set_sync_complete).
StartupSyncFailed ==
    /\ hist["startup"].pc = "idle"
    /\ budget > 0
    /\ budget' = budget - 1
    /\ \E at \in {"links", "channels"} :
          /\ at = "channels" => linked_members # {}
          /\ hist' = [hist EXCEPT !["startup"] = [IdleHist("Ok") EXCEPT !.exit = at]]
          /\ statuses' =
                IF at = "links" THEN set_sync_complete(statuses, W)
                ELSE set_sync_complete(
                         set_sync_complete(
                             set_syncing(statuses, W, "Fetching channels..."), W), W)
    /\ replay' = NoReplay
    /\ UNCHANGED <<messages, tasks, links, author, reactions, live, per,
                   derive, client,
                   link_rows, reqs,
                   pager, changes, snap>>

\* perform_initial_sync, lines 969-986, in the sync the link handler spawned:
\* set_syncing, fetch_channels fails, set_sync_complete, Err.
LinkSyncFailed ==
    /\ hist["link"].pc = "spawned"
    /\ budget > 0
    /\ budget' = budget - 1
    /\ hist' = [hist EXCEPT !["link"] = HistReturn(hist["link"], "Err", "channels")]
    /\ statuses' = set_sync_complete(
                       set_syncing(statuses, W, "Fetching channels..."), W)
    /\ replay' = NoReplay
    /\ UNCHANGED <<messages, tasks, links, author, reactions, live, per,
                   derive, client,
                   link_rows, reqs,
                   pager, changes, snap>>

\* lines 1194-1200: the lookup by external id.
HistGetMessage(p) ==
    /\ hist[p].pc = "get_message"
    /\ LET found == get_message_by_external_id(
                        message_external_id(ChannelOf(hist[p].msg), TsOf(hist[p].msg)))
       IN  \/ \E i \in found :
                 hist' = [hist EXCEPT ![p].message = i, ![p].pc = "get_task"]
           \/ found = {} /\ hist' = [hist EXCEPT ![p].pc = "create_message"]
    /\ statuses' = sync_stepped(p)
    /\ replay' = NoReplay
    /\ UNCHANGED <<messages, tasks, links, author, reactions, live, per, budget,
                   derive, client,
                   link_rows, reqs,
                   pager, changes, snap>>

\* lines 1200-1210: the row was not found, it is inserted.
HistCreateMessage(p) ==
    /\ hist[p].pc = "create_message"
    /\ messages' = MessagesRepo_create(
                       TextOf(hist[p].msg),
                       message_external_id(ChannelOf(hist[p].msg), TsOf(hist[p].msg)),
                       ChannelOf(hist[p].msg), TsOf(hist[p].msg), hist[p].person)
    /\ hist' = [hist EXCEPT ![p].message = Len(messages'), ![p].pc = "get_task"]
    /\ statuses' = sync_stepped(p)
    /\ replay' = NoReplay
    /\ UNCHANGED <<tasks, links, author, reactions, live, per, budget,
                   derive, client,
                   link_rows, reqs,
                   pager, changes, snap>>

\* lines 1234-1245: status and assigner of the page's reaction list.
history_status(rs) ==
    eval_status_from_reactions(map_reactions_to_status(rs, get_emoji_mappings))

history_assigner(rs) ==
    IF first_reactor(rs) = None THEN None ELSE get_by_external_id(first_reactor(rs))

\* lines 1234-1276: a Blank status ends the call; else the task of the message
\* is read, and what is to be written is decided from the row read.
HistGetTask(p) ==
    /\ hist[p].pc = "get_task"
    /\ LET status == history_status(hist[p].rs)
           assigner == history_assigner(hist[p].rs)
           found == get_task_by_message_id(hist[p].message)
       IN  IF status = "Blank"
           THEN hist' = [hist EXCEPT ![p] = HistReturn(hist[p], "Ok", "blank")]
           ELSE \/ \E i \in found :
                      hist' = [hist EXCEPT ![p] =
                          IF tasks[i].status # status
                          THEN [@ EXCEPT !.task = i, !.status = status,
                                         !.assigner = assigner,
                                         !.owner_differs = (tasks[i].assigned_by # assigner),
                                         !.pc = "write_status"]
                          ELSE IF tasks[i].assigned_by # assigner
                          THEN [@ EXCEPT !.task = i, !.status = status,
                                         !.assigner = assigner, !.pc = "write_owner"]
                          ELSE HistReturn(hist[p], "Ok", "unchanged")]
                \/ /\ found = {}
                   /\ hist' = [hist EXCEPT ![p].status = status,
                                           ![p].assigner = assigner,
                                           ![p].pc = "create_task"]
    /\ statuses' = sync_stepped(p)
    /\ replay' = NoReplay
    /\ UNCHANGED <<messages, tasks, links, author, reactions, live, per, budget,
                   derive, client,
                   link_rows, reqs,
                   pager, changes, snap>>

\* lines 1249-1251.
HistWriteStatus(p) ==
    /\ hist[p].pc = "write_status"
    /\ tasks' = change_status(tasks, hist[p].task, hist[p].status)
    /\ hist' = [hist EXCEPT ![p] = IF hist[p].owner_differs
                                   THEN [@ EXCEPT !.pc = "write_owner"]
                                   ELSE HistReturn(hist[p], "Ok", "updated")]
    /\ statuses' = sync_stepped(p)
    /\ replay' = NoReplay
    /\ UNCHANGED <<messages, links, author, reactions, live, per, budget,
                   derive, client,
                   link_rows, reqs,
                   pager, changes, snap>>

\* lines 1252-1256.
HistWriteOwner(p) ==
    /\ hist[p].pc = "write_owner"
    /\ tasks' = change_assigned_by(tasks, hist[p].task, hist[p].assigner)
    /\ hist' = [hist EXCEPT ![p] = HistReturn(hist[p], "Ok", "updated")]
    /\ statuses' = sync_stepped(p)
    /\ replay' = NoReplay
    /\ UNCHANGED <<messages, links, author, reactions, live, per, budget,
                   derive, client,
                   link_rows, reqs,
                   pager, changes, snap>>

\* lines 1258-1268.
HistCreateTask(p) ==
    /\ hist[p].pc = "create_task"
    /\ tasks' = TasksRepo_create(hist[p].status, hist[p].person, hist[p].assigner,
                                 hist[p].message)
    /\ hist' = [hist EXCEPT ![p] = HistReturn(hist[p], "Ok", "created")]
    /\ statuses' = sync_stepped(p)
    /\ replay' = NoReplay
    /\ UNCHANGED <<messages, links, author, reactions, live, per, budget,
                   derive, client,
                   link_rows, reqs,
                   pager, changes, snap>>

(***************************************************************************)
(* The periodic loop: start_periodic_tasks_sync and run_periodic_sync.     *)
(***************************************************************************)
\* `failed` tells that the last pass ended with the error of get_all, `skipped`
\* holds the rows of the pass in progress whose reactions could not be fetched.
IdlePer ==
    [pc |-> "idle", todo |-> <<>>, status |-> "Blank", task |-> 0, failed |-> FALSE,
     skipped |-> {}]

\* start_periodic_tasks_sync, lines 799-809: a tick of the 300 s interval; the
\* channel scan of every linked member comes first.
PeriodicTick ==
    /\ per.pc = "idle"
    /\ hist["scan"].pc = "idle"
    /\ per' = [IdlePer EXCEPT !.pc = "scan"]
    /\ perform_initial_sync_for_all_users("scan")
    /\ statuses' = sync_started("scan")
    /\ replay' = NoReplay
    /\ UNCHANGED <<messages, tasks, links, author, reactions, live, budget,
                   derive, client,
                   link_rows, reqs,
                   pager, changes, snap>>

\* lines 755-757: the scan has returned; get_all reads the message rows.
PerListMessages ==
    /\ per.pc = "scan"
    /\ hist["scan"].pc = "idle"
    /\ per' = IF messages = <<>> THEN IdlePer
              ELSE [per EXCEPT !.pc = "fetch",
                               !.todo = [i \in 1..Len(messages) |-> i]]
    /\ replay' = NoReplay
    /\ UNCHANGED <<messages, tasks, links, author, reactions, live, hist, budget,
                   derive, client, statuses,
                   link_rows, reqs,
                   pager, changes, snap>>

\* fetch_message_reactions, lines 724-752: reactions.get with the bot token
\* of the workspace names the message by channel and timestamp.
GMsgsOf(row) ==
    {m \in DOMAIN reactions : /\ WorkspaceOf(m) = W
                              /\ ChannelOf(m) = row.channel
                              /\ TsOf(m) = row.timestamp}

GMsgOf(row) == CHOOSE m \in GMsgsOf(row) : TRUE

\* lines 762 and 790: the next message of the loop, or Ok(()) after the last.
PerNext == IF Len(per.todo) = 1 THEN IdlePer
           ELSE [IdlePer EXCEPT !.pc = "fetch", !.todo = Tail(per.todo),
                                !.skipped = per.skipped]

\* A plausible slip: the error of the fetch is propagated (`?`).
per_after_failed_fetch_returning == IdlePer

\* lines 768-776: the failure is logged and the loop continues.
per_after_failed_fetch ==
    IF Len(per.todo) = 1 THEN IdlePer
    ELSE [PerNext EXCEPT !.skipped = @ \cup {Head(per.todo)}]

\* A plausible slip: a Blank status ends the message, as in the historical sync.
per_after_fetch_skipping_blank(message_reactions) ==
    LET status_set == map_reactions_to_status(message_reactions, get_emoji_mappings)
        correct_status == eval_status_from_reactions(status_set)
    IN  IF correct_status = "Blank" THEN PerNext
        ELSE [per EXCEPT !.status = correct_status, !.pc = "get_task"]

\* lines 777-779: the status of the refetched list, whatever it is, and on to
\* the task of the message.
per_after_fetch(message_reactions) ==
    LET status_set == map_reactions_to_status(message_reactions, get_emoji_mappings)
        correct_status == eval_status_from_reactions(status_set)
    IN  [per EXCEPT !.status = correct_status, !.pc = "get_task"]

\* line 755: get_all fails and `?` returns the error from the pass; the loop
\* logs it (lines 806-811).
PerListMessagesFailed ==
    /\ per.pc = "scan"
    /\ hist["scan"].pc = "idle"
    /\ budget > 0
    /\ budget' = budget - 1
    /\ per' = [IdlePer EXCEPT !.failed = TRUE]
    /\ replay' = NoReplay
    /\ UNCHANGED <<messages, tasks, links, author, reactions, live, hist,
                   derive, client, statuses,
                   link_rows, reqs,
                   pager, changes, snap>>

\* lines 763-777: the reactions of the next message; a failed fetch skips it
\* (the request fails, or the workspace has no such message: `!response.ok`).
PerFetchReactions ==
    /\ per.pc = "fetch"
    /\ \/ /\ GMsgsOf(messages[Head(per.todo)]) # {}
          /\ per' = per_after_fetch(reactions[GMsgOf(messages[Head(per.todo)])])
          /\ UNCHANGED budget
       \/ /\ IF GMsgsOf(messages[Head(per.todo)]) = {}
             THEN UNCHANGED budget
             ELSE budget > 0 /\ budget' = budget - 1
          /\ per' = per_after_failed_fetch
    /\ replay' = NoReplay
    /\ UNCHANGED <<messages, tasks, links, author, reactions, live, hist,
                   derive, client, statuses,
                   link_rows, reqs,
                   pager, changes, snap>>

\* lines 779-783: a message without a task is skipped.
PerGetTask ==
    /\ per.pc = "get_task"
    /\ LET found == get_task_by_message_id(Head(per.todo))
       IN  \/ \E i \in found : per' = [per EXCEPT !.task = i, !.pc = "write"]
           \/ found = {} /\ per' = PerNext
    /\ replay' = NoReplay
    /\ UNCHANGED <<messages, tasks, links, author, reactions, live, hist, budget,
                   derive, client, statuses,
                   link_rows, reqs,
                   pager, changes, snap>>

\* lines 785-787.
PerChangeStatus ==
    /\ per.pc = "write"
    /\ tasks' = change_status(tasks, per.task, per.status)
    /\ per' = PerNext
    /\ replay' = NoReplay
    /\ UNCHANGED <<messages, links, author, reactions, live, hist, budget,
                   derive, client, statuses,
                   link_rows, reqs,
                   pager, changes, snap>>

(***************************************************************************)
(* The Protocol Client: SlackBot::start.  One step per await of the loop.   *)
(* `now` is the time, which advances with every frame read; `acks` and      *)
(* `dispatched` are what was sent and dispatched for the frame read last;    *)
(* `spawned` tells that start() has spawned its two background tasks;        *)
(* `extra` counts the further clients of the workspace that spawn_bot has   *)
(* started and that are in their loops; `halted` tells that main has         *)
(* returned and the runtime with all its tasks is gone; `dropped` and        *)
(* `failed` count the error! lines of the loop: the texts that were no      *)
(* envelope and the handlers that returned an error.                        *)
(***************************************************************************)
NewClient ==
    [pc |-> "init", frame |-> None, now |-> 0, cancelled |-> FALSE, handshakes |-> 0,
     acks |-> <<>>, dispatched |-> 0, close_sent |-> None, ret |-> None, exit |-> None,
     spawned |-> FALSE, extra |-> 0, halted |-> FALSE, dropped |-> 0, failed |-> 0]

NoEvent ==
    [kind |-> None, subtype |-> None, msg |-> None, user |-> None, reaction |-> None,
     reactions |-> <<>>]

\* SlackEnvelope: envelope_id, type, payload.event.
Envelope(id, type, event) == [kind |-> "text", id |-> id, type |-> type, event |-> event]

Frame(kind) == [kind |-> kind, id |-> None, type |-> None, event |-> NoEvent]

ReactionAddedBy(u) ==
    [kind |-> "reaction_added", subtype |-> None, msg |-> "m1", user |-> u,
     reaction |-> "eyes", reactions |-> <<>>]

\* Events the handlers have nothing to do for: a reaction the workspace does
\* not map, a message event that is no message_changed, an event of a type
\* handle_event does not know.
UnmappedReaction(kind) ==
    [kind |-> kind, subtype |-> None, msg |-> "m1", user |-> "V", reaction |-> "tada",
     reactions |-> <<>>]

MessageOfSubtype(subtype) ==
    [kind |-> "message", subtype |-> subtype, msg |-> "m1", user |-> "V",
     reaction |-> None, reactions |-> <<>>]

EventOfType(kind) ==
    [kind |-> kind, subtype |-> None, msg |-> "m1", user |-> "V", reaction |-> None,
     reactions |-> <<>>]

\* What read.next() can yield: envelopes with and without an id, of the type
\* events_api and of other types, a text that is no envelope, a ping, a close
\* frame, a frame of another kind, and a transport error.
Frames ==
    {Envelope("e1", "events_api", ReactionAddedBy("V")),
     Envelope(None, "events_api", ReactionAddedBy("X")),
     Envelope("e2", "interactive", NoEvent),
     Envelope(None, "hello", NoEvent),
     Envelope(None, "events_api", UnmappedReaction("reaction_added")),
     Envelope(None, "events_api", UnmappedReaction("reaction_removed")),
     Envelope(None, "events_api", MessageOfSubtype("channel_join")),
     Envelope(None, "events_api", EventOfType("app_mention")),
     Frame("garbage"), Frame("ping"), Frame("close"), Frame("other"), Frame("error")}

\* A plausible slip: only event envelopes are acknowledged.
acknowledges_events_only(envelope) ==
    envelope.id # None /\ envelope.type = "events_api"

\* lines 285-291: `if let Some(envelope_id)`.
acknowledges(envelope) == envelope.id # None

\* lines 293-305: the envelope is dispatched when it is an events_api envelope
\* whose payload holds an event.
dispatches(envelope) == envelope.type = "events_api" /\ envelope.event # NoEvent

after_ack(envelope) == IF dispatches(envelope) THEN "dispatch" ELSE "select"

\* A plausible slip: a text that is no envelope ends the loop.
after_parse_error_breaking == "after_loop"

\* lines 306-309: the parse error is logged and the loop goes round.
after_parse_error == "select"

\* lines 360-377: handle_event logs the handler's error and returns nothing.
after_handler(ret) == "select"

\* A plausible slip: only a ping counts as a sign of life.
refreshes_heartbeat_on_ping(frame) == frame.kind = "ping"

\* lines 270-271: "Update heartbeat on any message".
refreshes_heartbeat(frame) == TRUE

\* A plausible slip: `?` instead of `let _ =` on the close frame.
after_close_send_propagating(ok) == IF ok THEN "after_loop" ELSE "done"

\* lines 258-259: the result of the close-frame send is dropped, then `break`.
after_close_send(ok) == "after_loop"

\* A plausible slip: the client connects again after the loop.
after_disconnect_retry == "init"

\* lines 346-351: `Ok(())` follows the last set_disconnected.
after_disconnect == "done"

\* start(), lines 192-246: apps.connections.open and connect_async, any of
\* which may fail (`?`), then set_connected and the two tokio::spawn of the
\* initial sync and of the periodic loop (`spawned`).
ClientConnect ==
    /\ client.pc = "init"
    /\ client.handshakes < MaxHandshakes
    /\ \/ /\ client' = [client EXCEPT !.pc = "select", !.handshakes = @ + 1,
                                       !.spawned = TRUE]
          /\ statuses' = set_connected(statuses, W, client.now)
       \/ /\ client' = [client EXCEPT !.pc = "done", !.handshakes = @ + 1,
                                       !.ret = "Err", !.exit = "handshake"]
          /\ statuses' = statuses
    /\ UNCHANGED <<messages, tasks, links, author, reactions, live, hist, per, budget,
                   replay, derive,
                   link_rows, reqs,
                   pager, changes, snap>>

\* handlers/workspaces.rs setup_workspace, lines 258-311, and state.rs
\* spawn_bot: the workspace is written to the configuration, whether or not it
\* is there already, and a new SlackBot of that name is started; its start()
\* fails at the handshake, or marks the workspace connected, spawns its sync
\* and its periodic loop and enters its loop.
spawn_bot ==
    /\ client.extra < MaxSpawns
    /\ \/ /\ client' = [client EXCEPT !.extra = @ + 1]
          /\ statuses' = set_connected(statuses, W, client.now)
       \/ UNCHANGED <<client, statuses>>
    /\ UNCHANGED <<messages, tasks, links, author, reactions, live, hist, per, budget,
                   replay, derive,
                   link_rows, reqs,
                   pager, changes, snap>>

\* start(), lines 340-351, in a client that spawn_bot started: its stream
\* ends and it marks the workspace disconnected.
SpawnedBotEnds ==
    /\ client.extra > 0
    /\ client' = [client EXCEPT !.extra = @ - 1]
    /\ statuses' = set_disconnected(statuses, W, None)
    /\ UNCHANGED <<messages, tasks, links, author, reactions, live, hist, per, budget,
                   replay, derive,
                   link_rows, reqs,
                   pager, changes, snap>>

\* main.rs, lines 80-85: Ctrl+C cancels the shared token.
Cancel ==
    /\ ~client.cancelled
    /\ client' = [client EXCEPT !.cancelled = TRUE]
    /\ UNCHANGED <<messages, tasks, links, author, reactions, live, hist, per, budget,
                   replay, derive, statuses,
                   link_rows, reqs,
                   pager, changes, snap>>

\* main.rs, lines 83-90: one second after the cancellation main returns; the
\* runtime is dropped and every task ends at the await it is at.
ProcessExit ==
    /\ client.cancelled
    /\ ~client.halted
    /\ client' = [client EXCEPT !.halted = TRUE]
    /\ UNCHANGED <<messages, tasks, links, author, reactions, live, hist, per, budget,
                   replay, derive, statuses, link_rows, reqs,
                   pager, changes, snap>>

\* lines 261-268: read.next() wins the select! with a frame.
ClientRead ==
    /\ client.pc = "select"
    /\ client.now < MaxFrames
    /\ \E f \in Frames :
          client' = [client EXCEPT !.pc = "heartbeat", !.frame = f, !.now = @ + 1,
                                   !.acks = <<>>, !.dispatched = 0]
    /\ UNCHANGED <<messages, tasks, links, author, reactions, live, hist, per, budget,
                   replay, derive, statuses,
                   link_rows, reqs,
                   pager, changes, snap>>

\* lines 264-267: read.next() wins the select! with the end of the stream.
ClientStreamEnd ==
    /\ client.pc = "select"
    /\ client' = [client EXCEPT !.pc = "after_loop", !.exit = "stream_end"]
    /\ UNCHANGED <<messages, tasks, links, author, reactions, live, hist, per, budget,
                   replay, derive, statuses,
                   link_rows, reqs,
                   pager, changes, snap>>

\* lines 256-260: the cancellation wins the select!; the close frame is sent,
\* or the send fails.
ClientCancelled ==
    /\ client.pc = "select"
    /\ client.cancelled
    /\ \E ok \in BOOLEAN :
          client' = [client EXCEPT !.close_sent = IF ok THEN "ok" ELSE "failed",
                                   !.pc = after_close_send(ok),
                                   !.ret = IF after_close_send(ok) = "done"
                                           THEN "Err" ELSE None,
                                   !.exit = "cancelled"]
    /\ UNCHANGED <<messages, tasks, links, author, reactions, live, hist, per, budget,
                   replay, derive, statuses,
                   link_rows, reqs,
                   pager, changes, snap>>

\* lines 270-271.
ClientHeartbeat ==
    /\ client.pc = "heartbeat"
    /\ statuses' = IF refreshes_heartbeat(client.frame)
                   THEN heartbeat(statuses, W, client.now) ELSE statuses
    /\ client' = [client EXCEPT !.pc = "match"]
    /\ UNCHANGED <<messages, tasks, links, author, reactions, live, hist, per, budget,
                   replay, derive,
                   link_rows, reqs,
                   pager, changes, snap>>

\* lines 273-337: the match on the frame, up to its first await.
ClientMatch ==
    /\ client.pc = "match"
    /\ LET f == client.frame
       IN  CASE f.kind = "text" ->
                  /\ client' = [client EXCEPT !.pc = IF acknowledges(f) THEN "ack"
                                                     ELSE after_ack(f)]
                  /\ statuses' = statuses
             [] f.kind = "garbage" ->
                  /\ client' = [client EXCEPT !.pc = after_parse_error,
                                              !.dropped = @ + 1]
                  /\ statuses' = statuses
             [] f.kind = "ping" ->
                  /\ client' = [client EXCEPT !.pc = "pong"]
                  /\ statuses' = statuses
             [] f.kind = "close" ->
                  /\ statuses' = set_disconnected(statuses, W, "Connection closed")
                  /\ client' = [client EXCEPT !.pc = "after_loop", !.exit = "close"]
             [] f.kind = "error" ->
                  /\ statuses' = set_disconnected(statuses, W, "transport error")
                  /\ client' = [client EXCEPT !.pc = "after_loop", !.exit = "error"]
             [] OTHER ->
                  /\ client' = [client EXCEPT !.pc = "select"]
                  /\ statuses' = statuses
    /\ UNCHANGED <<messages, tasks, links, author, reactions, live, hist, per, budget,
                   replay, derive,
                   link_rows, reqs,
                   pager, changes, snap>>

\* lines 285-291: the acknowledgment is sent, or the send fails and start()
\* returns the error.
ClientAck ==
    /\ client.pc = "ack"
    /\ \E ok \in BOOLEAN :
          client' = IF ok
                    THEN [client EXCEPT !.acks = Append(@, client.frame.id),
                                        !.pc = after_ack(client.frame)]
                    ELSE [client EXCEPT !.acks = Append(@, client.frame.id),
                                        !.pc = "done", !.ret = "Err",
                                        !.exit = "ack_failed"]
    /\ UNCHANGED <<messages, tasks, links, author, reactions, live, hist, per, budget,
                   replay, derive, statuses,
                   link_rows, reqs,
                   pager, changes, snap>>

\* lines 311-313: the pong is sent, or the send fails and start() returns the
\* error.
ClientPong ==
    /\ client.pc = "pong"
    /\ \E ok \in BOOLEAN :
          client' = IF ok THEN [client EXCEPT !.pc = "select"]
                    ELSE [client EXCEPT !.pc = "done", !.ret = "Err",
                                        !.exit = "pong_failed"]
    /\ UNCHANGED <<messages, tasks, links, author, reactions, live, hist, per, budget,
                   replay, derive, statuses,
                   link_rows, reqs,
                   pager, changes, snap>>

\* line 378: `_ => {}`, an event of another type is dropped.
handle_other_event(ev) ==
    /\ Deliver(ev)
    /\ ev.kind \notin {"reaction_added", "reaction_removed", "message"}
    /\ live' = IdleLive("Ok", "ignored")
    /\ replay' = NoReplay
    /\ UNCHANGED <<messages, tasks, links, author, reactions, hist, per, derive,
                   link_rows, reqs,
                   pager, changes, snap>>

\* handle_event, lines 354-380: the handler of the event's type.
handle_event(ev) ==
    \/ handle_reaction_added(ev)
    \/ handle_reaction_removed(ev)
    \/ handle_message_event(ev)
    \/ handle_other_event(ev)

\* line 297: `self.handle_event(event).await`.
ClientDispatch ==
    /\ client.pc = "dispatch"
    /\ handle_event(client.frame.event)
    /\ client' = [client EXCEPT !.pc = "handling", !.dispatched = @ + 1]
    /\ statuses' = statuses

\* The handler has returned; the loop goes round.
ClientHandled ==
    /\ client.pc = "handling"
    /\ live.pc = "idle"
    /\ client' = [client EXCEPT !.pc = after_handler(live.ret),
                                !.failed = IF live.ret = "Err" THEN @ + 1 ELSE @]
    /\ UNCHANGED <<messages, tasks, links, author, reactions, live, hist, per, budget,
                   replay, derive, statuses,
                   link_rows, reqs,
                   pager, changes, snap>>

\* lines 340-351: after the loop.
ClientAfterLoop ==
    /\ client.pc = "after_loop"
    /\ statuses' = set_disconnected(statuses, W, None)
    /\ client' = [client EXCEPT !.pc = after_disconnect,
                                !.ret = IF after_disconnect = "done" THEN "Ok" ELSE None]
    /\ UNCHANGED <<messages, tasks, links, author, reactions, live, hist, per, budget,
                   replay, derive,
                   link_rows, reqs,
                   pager, changes, snap>>

(***************************************************************************)
(* The workspace links: repos/workspace_links.rs.  A row's id is its        *)
(* position in `link_rows`; delete marks the row `deleted`: the queries     *)
(* skip it and an update of it fails.  The handlers of two requests call    *)
(* the repository concurrently; every await of a call is one step.          *)
(***************************************************************************)
Reqs == {"r1", "r2"}
Workspaces == {"W", "B"}
LinkPersons == {"pU"}

IdleReq ==
    [pc |-> "idle", person |-> None, ws |-> None, row |-> 0, is_first |-> FALSE,
     todo |-> <<>>]

\* get_by_person: the rows of the person.
get_by_person(person_id) ==
    {i \in DOMAIN link_rows :
        ~link_rows[i].deleted /\ link_rows[i].person_id = person_id}

\* get_by_person_and_workspace: .one() of the rows of the person and the
\* workspace, any of them.
get_by_person_and_workspace(person_id, workspace_name) ==
    {i \in get_by_person(person_id) : link_rows[i].workspace_name = workspace_name}

NewLink(person_id, workspace_name, is_linked, is_active) ==
    [person_id |-> person_id, workspace_name |-> workspace_name,
     is_linked |-> is_linked, is_active |-> is_active, deleted |-> FALSE]

\* ActiveModel::update of the columns that were Set; the update of a row that
\* is gone fails and changes nothing.
UpdateLink(i, is_linked, is_active) ==
    IF link_rows[i].deleted THEN link_rows
    ELSE [link_rows EXCEPT ![i].is_linked = is_linked, ![i].is_active = is_active]

LinksOnly ==
    UNCHANGED <<messages, tasks, links, author, reactions, live, hist, per, replay,
                derive, client, statuses,
                pager, changes, snap>>

\* A request calls the repository.
RepoCall(r, person_id, workspace_name, pc) ==
    /\ reqs[r].pc = "idle"
    /\ budget > 0
    /\ budget' = budget - 1
    /\ reqs' = [reqs EXCEPT ![r] = [IdleReq EXCEPT !.pc = pc, !.person = person_id,
                                                   !.ws = workspace_name]]
    /\ UNCHANGED link_rows
    /\ LinksOnly

\* create, lines 23-41: one insert, not linked and not active.
LinksCreate(person_id, workspace_name) ==
    /\ budget > 0
    /\ budget' = budget - 1
    /\ link_rows' = Append(link_rows, NewLink(person_id, workspace_name, FALSE, FALSE))
    /\ UNCHANGED reqs
    /\ LinksOnly

\* delete, lines 126-131: delete_by_id.
LinksDelete(link_id) ==
    /\ budget > 0
    /\ budget' = budget - 1
    /\ ~link_rows[link_id].deleted
    /\ link_rows' = [link_rows EXCEPT ![link_id].deleted = TRUE]
    /\ UNCHANGED reqs
    /\ LinksOnly

\* link_workspace, lines 71-108.
link_workspace(r, person_id, workspace_name) ==
    RepoCall(r, person_id, workspace_name, "link_get")

\* lines 78-81: the existing link of the person to the workspace.
RepoLinkGet(r) ==
    /\ reqs[r].pc = "link_get"
    /\ LET found == get_by_person_and_workspace(reqs[r].person, reqs[r].ws)
       IN  \/ \E i \in found : reqs' = [reqs EXCEPT ![r].row = i, ![r].pc = "link_update"]
           \/ found = {} /\ reqs' = [reqs EXCEPT ![r].pc = "link_list"]
    /\ UNCHANGED <<link_rows, budget>>
    /\ LinksOnly

\* lines 82-89: the existing link is updated.
RepoLinkUpdate(r) ==
    /\ reqs[r].pc = "link_update"
    /\ link_rows' = UpdateLink(reqs[r].row, TRUE, link_rows[reqs[r].row].is_active)
    /\ reqs' = [reqs EXCEPT ![r] = IdleReq]
    /\ UNCHANGED budget
    /\ LinksOnly

\* lines 92-93: is_first.
first_link_is_active(existing_links) == existing_links = {}

\* lines 91-93: the links of the person are read.
RepoLinkList(r) ==
    /\ reqs[r].pc = "link_list"
    /\ reqs' = [reqs EXCEPT ![r].is_first =
                                first_link_is_active(get_by_person(reqs[r].person)),
                            ![r].pc = "link_insert"]
    /\ UNCHANGED <<link_rows, budget>>
    /\ LinksOnly

\* lines 95-105: the new link is inserted, active if it was the first.
RepoLinkInsert(r) ==
    /\ reqs[r].pc = "link_insert"
    /\ link_rows' = Append(link_rows,
                           NewLink(reqs[r].person, reqs[r].ws, TRUE, reqs[r].is_first))
    /\ reqs' = [reqs EXCEPT ![r] = IdleReq]
    /\ UNCHANGED budget
    /\ LinksOnly

\* unlink_workspace, lines 110-124.
unlink_workspace(r, person_id, workspace_name) ==
    RepoCall(r, person_id, workspace_name, "unlink_get")

RepoUnlinkGet(r) ==
    /\ reqs[r].pc = "unlink_get"
    /\ LET found == get_by_person_and_workspace(reqs[r].person, reqs[r].ws)
       IN  \/ \E i \in found :
                 reqs' = [reqs EXCEPT ![r].row = i, ![r].pc = "unlink_update"]
           \/ found = {} /\ reqs' = [reqs EXCEPT ![r] = IdleReq]
    /\ UNCHANGED <<link_rows, budget>>
    /\ LinksOnly

RepoUnlinkUpdate(r) ==
    /\ reqs[r].pc = "unlink_update"
    /\ link_rows' = UpdateLink(reqs[r].row, FALSE, link_rows[reqs[r].row].is_active)
    /\ reqs' = [reqs EXCEPT ![r] = IdleReq]
    /\ UNCHANGED budget
    /\ LinksOnly

\* set_active_workspace, lines 148-170.
set_active_workspace(r, person_id, workspace_name) ==
    RepoCall(r, person_id, workspace_name, "active_list")

\* The rows of a set in the order of their ids.
RECURSIVE SeqOfRows(_)
SeqOfRows(rows) ==
    IF rows = {} THEN <<>>
    ELSE LET i == CHOOSE x \in rows : \A y \in rows : x <= y
         IN  <<i>> \o SeqOfRows(rows \ {i})

\* line 154: the links of the person are read.
RepoActiveList(r) ==
    /\ reqs[r].pc = "active_list"
    /\ LET all_links == SeqOfRows(get_by_person(reqs[r].person))
       IN  reqs' = [reqs EXCEPT ![r].todo = all_links,
                                ![r].pc = IF all_links = <<>> THEN "active_get"
                                          ELSE "active_clear"]
    /\ UNCHANGED <<link_rows, budget>>
    /\ LinksOnly

\* lines 155-159: each of them is made inactive; the update of a link that
\* was deleted meanwhile fails and `?` ends the call.
RepoActiveClear(r) ==
    /\ reqs[r].pc = "active_clear"
    /\ LET i == Head(reqs[r].todo)
       IN  /\ link_rows' = UpdateLink(i, link_rows[i].is_linked, FALSE)
           /\ reqs' = [reqs EXCEPT ![r] =
                          IF link_rows[i].deleted THEN IdleReq
                          ELSE IF Len(reqs[r].todo) = 1
                          THEN [@ EXCEPT !.todo = <<>>, !.pc = "active_get"]
                          ELSE [@ EXCEPT !.todo = Tail(@)]]
    /\ UNCHANGED budget
    /\ LinksOnly

\* lines 162-164: the link to activate.
RepoActiveGet(r) ==
    /\ reqs[r].pc = "active_get"
    /\ LET found == get_by_person_and_workspace(reqs[r].person, reqs[r].ws)
       IN  \/ \E i \in found :
                 reqs' = [reqs EXCEPT ![r].row = i, ![r].pc = "active_set"]
           \/ found = {} /\ reqs' = [reqs EXCEPT ![r] = IdleReq]
    /\ UNCHANGED <<link_rows, budget>>
    /\ LinksOnly

\* lines 166-169.
RepoActiveSet(r) ==
    /\ reqs[r].pc = "active_set"
    /\ link_rows' = UpdateLink(reqs[r].row, link_rows[reqs[r].row].is_linked, TRUE)
    /\ reqs' = [reqs EXCEPT ![r] = IdleReq]
    /\ UNCHANGED budget
    /\ LinksOnly

(***************************************************************************)
(* repos/changes.rs.  ChangesRepo::create is the only writer of the table  *)
(* `changes`; neither the repositories nor slack_bot.rs nor a handler      *)
(* calls it, so no action of the model does.                               *)
(***************************************************************************)
\* create, lines 16-33: the index is the count of the task's records.
ChangesRepo_create(rows, old, task_id) ==
    Append(rows, [old |-> old, new |-> tasks[task_id].status,
                  index |-> Cardinality({i \in DOMAIN rows : rows[i].task_id = task_id}),
                  task_id |-> task_id])

(***************************************************************************)
(* InitialSyncer::fetch_channel_messages_with_reactions, lines 1086-1153:  *)
(* the pages of conversations.history of one channel.  `requests` counts   *)
(* the GETs sent, `served` are the message lists of the ok responses, in   *)
(* the order the gateway gave them.                                        *)
(***************************************************************************)
MAX_PAGES == 5

IdlePager ==
    [pc |-> "idle", user |-> None, cursor |-> None, pages |-> 0, all_messages |-> <<>>,
     requests |-> 0, served |-> <<>>, ret |-> None, exit |-> None]

\* Option<Vec<_>>: a list that is there, or none.
Some(list) == [some |-> TRUE, list |-> list]
Absent == [some |-> FALSE, list |-> <<>>]

\* HistoryMessage: the reactions are optional.
HistoryMessages ==
    {[user |-> "U", ts |-> "t1",
      reactions |-> Some(<<[name |-> "eyes", users |-> <<"V">>]>>)],
     [user |-> "U", ts |-> "t2", reactions |-> Absent],
     [user |-> "V", ts |-> "t3",
      reactions |-> Some(<<[name |-> "eyes", users |-> <<"U">>]>>)]}

NoMetadata == "NoMetadata"

\* HistoryResponse: ok, messages, response_metadata.next_cursor.
HistoryResponses ==
    [ok : {TRUE},
     messages : {Absent, Some(<<>>)} \cup {Some(<<m>>) : m \in HistoryMessages},
     next_cursor : {NoMetadata, None, "", "c1"}]
    \cup [ok : {FALSE}, messages : {Absent}, next_cursor : {NoMetadata}]

\* lines 1120-1124: the author's messages that carry reactions.
user_messages(page, user_slack_id) ==
    SelectSeq(page, LAMBDA m : m.user = user_slack_id /\ m.reactions.some)

\* A plausible slip: the cap is tested with > instead of >=.
reached_page_cap_late(pages) == pages > MAX_PAGES

\* lines 1130-1132: `if pages >= MAX_PAGES { break; }`.
reached_page_cap(pages) == pages >= MAX_PAGES

PagerOnly ==
    UNCHANGED <<messages, tasks, links, author, reactions, live, hist, per, budget,
                replay, derive, client, statuses, link_rows, reqs, changes, snap>>

\* The call for the channel and one member.
PagerStart(user_slack_id) ==
    /\ pager.pc = "idle"
    /\ pager' = [IdlePager EXCEPT !.pc = "fetch", !.user = user_slack_id]
    /\ PagerOnly

\* The function has returned with the messages it holds.
PagerReturn(p, exit) == [p EXCEPT !.pc = "idle", !.ret = "Ok", !.exit = exit]

\* lines 1096-1150: one round of the loop, from the GET to the break or the
\* sleep before the next round.
PagerPage(response) ==
    LET sent == [pager EXCEPT !.requests = @ + 1]
    IN  IF ~response.ok THEN PagerReturn(sent, "not_ok")
        ELSE LET got == IF ~response.messages.some THEN sent
                        ELSE [sent EXCEPT
                                !.all_messages =
                                    @ \o user_messages(response.messages.list,
                                                       pager.user),
                                !.served = Append(@, response.messages.list)]
                 counted == [got EXCEPT !.pages = @ + 1]
             IN  IF reached_page_cap(counted.pages) THEN PagerReturn(counted, "page_cap")
                 ELSE IF response.next_cursor = NoMetadata
                      THEN PagerReturn(counted, "no_metadata")
                 ELSE IF response.next_cursor = None
                      THEN PagerReturn(counted, "no_cursor")
                 ELSE IF response.next_cursor = ""
                      THEN PagerReturn(counted, "empty_cursor")
                 ELSE [counted EXCEPT !.cursor = response.next_cursor]

PagerFetch ==
    /\ pager.pc = "fetch"
    /\ \E response \in HistoryResponses : pager' = PagerPage(response)
    /\ PagerOnly

\* lines 1105-1113: the request or the decoding of its body fails, `?`.
PagerFetchFailed ==
    /\ pager.pc = "fetch"
    /\ pager' = [pager EXCEPT !.requests = @ + 1, !.pc = "idle", !.ret = "Err",
                              !.exit = "error"]
    /\ PagerOnly

(***************************************************************************)
(* The specification.                                                      *)
(***************************************************************************)
NoDerive == [reactions |-> <<>>, mappings |-> default_mappings, status |-> None]

\* Nothing stored, nothing running; the gateway holds the messages `msgs`,
\* each with one of the reaction lists `lists` from before the connection.
StartOn(msgs, authors, link_states, lists, b) ==
    /\ messages = <<>>
    /\ tasks = <<>>
    /\ links \in [{"pU", "pV"} -> link_states]
    /\ links["pV"] = "linked"
    /\ author \in [msgs -> authors]
    /\ reactions \in [msgs -> lists]
    /\ live = IdleLive(None, None)
    /\ hist = [p \in HistProcs |-> IdleHist(None)]
    /\ per = IdlePer
    /\ budget = b
    /\ replay = NoReplay
    /\ client = NewClient
    /\ statuses = NoStatuses
    /\ link_rows = <<>>
    /\ reqs = [r \in Reqs |-> IdleReq]
    /\ pager = IdlePager
    /\ changes = <<>>
    /\ snap = NoSnapshot

StartWith(authors, link_states, lists, b) ==
    StartOn(GMsgs, authors, link_states, lists, b)

Start(authors, link_states, b) ==
    StartWith(authors, link_states,
              {<<>>, <<[name |-> "eyes", users |-> <<"V">>]>>}, b)

Init == Start(Authors, {"none", "unlinked", "linked"}, MaxInputs) /\ derive = NoDerive

Gateway(E, M) ==
    \E m \in DOMAIN reactions, e \in E, u \in M :
        GatewayReactionAdded(m, e, u) \/ GatewayReactionRemoved(m, e, u)

Live(EV) ==
    \/ \E ev \in EV : OnReactionAdded(ev)
    \/ \E ev \in EV : OnReactionRemoved(ev)
    \/ \E ev \in EV : OnMessageEvent(ev)
    \/ LiveGetMessage
    \/ LiveCreateMessage
    \/ LiveGetTask
    \/ LiveFetchReactions
    \/ LiveWriteTask
    \/ LiveWriteOwner

HistSteps(p) ==
    \/ HistGetMessage(p)
    \/ HistCreateMessage(p)
    \/ HistGetTask(p)
    \/ HistWriteStatus(p)
    \/ HistWriteOwner(p)
    \/ HistCreateTask(p)

Hist ==
    \/ StartupSync
    \/ \E person \in persons : LinkWorkspace(person)
    \/ LinkSync
    \/ HistSteps("startup")
    \/ HistSteps("link")

Periodic ==
    \/ PeriodicTick
    \/ PerListMessages
    \/ PerFetchReactions
    \/ PerGetTask
    \/ PerChangeStatus
    \/ HistSteps("scan")

\* The live handler and the two spawned syncs, reconciling concurrently.
Reconcile(E, M) ==
    \/ Gateway(E, M)
    \/ Live(Events(E, M))
    \/ Hist

Next == Reconcile({"eyes", "white_check_mark", "tada"}, Reactors)

Spec == Init /\ [][Next]_vars

\* The same for a linked author, with an event that is delivered again.
InitReplay == Start({"U"}, {"linked"}, MaxReplayInputs) /\ derive = NoDerive

NextReplay == Reconcile({"eyes"}, {"V"})

SpecReplay == InitReplay /\ [][NextReplay]_vars

\* The start-up sync, the live handler and the periodic loop, the loop being
\* scheduled fairly (its timer fires every 300 s and nothing blocks its awaits).
InitConverge == Start({"U"}, {"linked"}, MaxConvergeInputs) /\ derive = NoDerive

NextConverge ==
    \/ Gateway({"white_check_mark"}, {"V"})
    \/ Live(Events({"white_check_mark"}, {"V"}))
    \/ StartupSync
    \/ HistSteps("startup")
    \/ Periodic

SpecConverge == InitConverge /\ [][NextConverge]_vars /\ WF_vars(Periodic)

\* The backfill after the live path: one process at a time, no change at the
\* gateway.  The page of the channel holds the message with one of these lists.
PageLists ==
    {<<>>,
     <<[name |-> "tada", users |-> <<"V">>]>>,
     <<[name |-> "hourglass", users |-> <<"V">>]>>,
     <<[name |-> "hourglass", users |-> <<"V">>], [name |-> "tada", users |-> <<"X">>]>>,
     <<[name |-> "eyes", users |-> <<"U">>],
       [name |-> "white_check_mark", users |-> <<"V">>]>>,
     <<[name |-> "eyes", users |-> <<"X">>], [name |-> "hourglass", users |-> <<"V">>]>>}

InitBackfill ==
    /\ StartWith({"U", "V", "X"}, {"none", "unlinked", "linked"}, PageLists,
                 MaxBackfillInputs)
    /\ derive = NoDerive

Quiet == live.pc = "idle" /\ \A p \in HistProcs : hist[p].pc = "idle"

\* A reaction_added event of a reaction the message carries.
LiveReactionAdded ==
    /\ Quiet
    /\ \E ev \in ReactionEvents(Emojis, {"U", "V", "X"}) :
          /\ HasReacted(reactions[ev.msg], ev.reaction, ev.user)
          /\ OnReactionAdded(ev)

LiveSteps ==
    \/ LiveGetMessage
    \/ LiveCreateMessage
    \/ LiveGetTask
    \/ LiveFetchReactions
    \/ LiveWriteTask
    \/ LiveWriteOwner

\* The syncs do not start while a handler runs.
QuietStartupSync == Quiet /\ StartupSync

QuietLinkWorkspace == Quiet /\ \E person \in persons : LinkWorkspace(person)

NextBackfill ==
    \/ LiveReactionAdded
    \/ LiveSteps
    \/ QuietStartupSync
    \/ QuietLinkWorkspace
    \/ LinkSync
    \/ HistSteps("startup")
    \/ HistSteps("link")

SpecBackfill == InitBackfill /\ [][NextBackfill]_vars

\* The connection: the client, the handler it awaits, and the cancellation.
\* Every dispatch finds the input it needs (an event, and a failed fetch).
InitClient == Start({"U"}, {"linked"}, 2 * MaxFrames) /\ derive = NoDerive

ClientLoop ==
    \/ ClientHeartbeat
    \/ ClientMatch
    \/ ClientAck
    \/ ClientPong
    \/ ClientDispatch
    \/ ClientHandled
    \/ ClientAfterLoop

NextClient ==
    \/ ClientConnect
    \/ Cancel
    \/ ClientRead
    \/ ClientStreamEnd
    \/ ClientCancelled
    \/ ClientLoop
    \/ LiveSteps
    \/ LiveCreateMessageFailed

SpecClient == InitClient /\ [][NextClient]_vars

\* The same, scheduled: the runtime runs the client and the handler it awaits,
\* and select! picks among its ready branches at random, so that a cancellation
\* that is ready whenever the loop comes round is taken at last.
SpecClientFair ==
    /\ SpecClient
    /\ WF_vars(ClientLoop)
    /\ WF_vars(LiveSteps)
    /\ SF_vars(ClientCancelled)

\* The periodic loop alone, over two messages of the workspace, with the
\* failures of its reads; scheduled as in SpecConverge.
InitPasses ==
    /\ StartOn({"m1", "m2"}, {"U"}, {"linked"},
               {<<>>, <<[name |-> "eyes", users |-> <<"V">>]>>}, MaxPassInputs)
    /\ derive = NoDerive

NextPasses ==
    \/ Gateway({"eyes"}, {"V", "X"})
    \/ PeriodicTick
    \/ HistSteps("scan")
    \/ PerListMessages
    \/ PerListMessagesFailed
    \/ PerFetchReactions
    \/ PerGetTask
    \/ PerChangeStatus

SpecPasses == InitPasses /\ [][NextPasses]_vars

PassSteps ==
    \/ PeriodicTick
    \/ HistSteps("scan")
    \/ PerListMessages
    \/ PerListMessagesFailed
    \/ PerFetchReactions
    \/ PerGetTask
    \/ PerChangeStatus

SpecPassesFair == SpecPasses /\ WF_vars(PassSteps)

\* The connection and the set-up handler, which starts a client for the
\* workspace it is given.
NextSetup ==
    \/ NextClient
    \/ spawn_bot
    \/ SpawnedBotEnds

SpecSetup == InitClient /\ [][NextSetup]_vars

\* The live handler and the periodic loop on the one message, with the
\* changes of its reaction list at the gateway.
InitRace == Start({"U"}, {"linked"}, MaxRaceInputs) /\ derive = NoDerive

LiveReactionAddedBy(E, M) == \E ev \in ReactionEvents(E, M) : OnReactionAdded(ev)

NextRace ==
    \/ Gateway({"eyes", "white_check_mark"}, {"V", "X"})
    \/ LiveReactionAddedBy({"eyes", "white_check_mark"}, {"V", "X"})
    \/ LiveSteps
    \/ Periodic

SpecRace == InitRace /\ [][NextRace]_vars

\* The same, scheduled: the runtime runs the awaits of the handler and of the
\* pass, and the timer of the loop fires.
SpecRaceFair == SpecRace /\ WF_vars(LiveSteps) /\ WF_vars(Periodic)

\* The workspace links: two requests calling the repository concurrently.
InitLinks == Start({"U"}, {"linked"}, MaxLinkCalls) /\ derive = NoDerive

NextLinks ==
    \/ \E p \in LinkPersons, w \in Workspaces : LinksCreate(p, w)
    \/ \E i \in DOMAIN link_rows : LinksDelete(i)
    \/ \E r \in Reqs, p \in LinkPersons, w \in Workspaces : link_workspace(r, p, w)
    \/ \E r \in Reqs, p \in LinkPersons, w \in Workspaces : unlink_workspace(r, p, w)
    \/ \E r \in Reqs, p \in LinkPersons, w \in Workspaces :
          set_active_workspace(r, p, w)
    \/ \E r \in Reqs : RepoLinkGet(r)
    \/ \E r \in Reqs : RepoLinkUpdate(r)
    \/ \E r \in Reqs : RepoLinkList(r)
    \/ \E r \in Reqs : RepoLinkInsert(r)
    \/ \E r \in Reqs : RepoUnlinkGet(r)
    \/ \E r \in Reqs : RepoUnlinkUpdate(r)
    \/ \E r \in Reqs : RepoActiveList(r)
    \/ \E r \in Reqs : RepoActiveClear(r)
    \/ \E r \in Reqs : RepoActiveGet(r)
    \/ \E r \in Reqs : RepoActiveSet(r)

SpecLinks == InitLinks /\ [][NextLinks]_vars

\* The historical syncs and the registry: the connection, the sync start()
\* spawns and the sync of the link handler, overlapping, with their failures.
InitSyncs == Start({"U"}, {"linked"}, MaxSyncInputs) /\ derive = NoDerive

\* start(), lines 220-235: the initial sync exists once start() has spawned it.
SpawnedStartupSync == client.spawned /\ StartupSync

SpawnedStartupSyncFailed == client.spawned /\ StartupSyncFailed

NextSyncs ==
    \/ ClientConnect
    \/ ClientStreamEnd
    \/ ClientAfterLoop
    \/ Gateway({"eyes", "white_check_mark"}, {"V", "X"})
    \/ SpawnedStartupSync
    \/ SpawnedStartupSyncFailed
    \/ \E person \in persons : LinkWorkspace(person)
    \/ LinkSync
    \/ LinkSyncFailed
    \/ HistSteps("startup")
    \/ HistSteps("link")

SpecSyncs == InitSyncs /\ [][NextSyncs]_vars

\* Two workspaces on the one database: W with message m1 and B with message
\* b1 of the same channel id and timestamp, their author linked to both.  The
\* handler of each workspace's client reconciles the events of its message;
\* the periodic loop is the one of W.
InitWorkspaces ==
    /\ StartOn({"m1", "b1"}, {"U"}, {"linked"},
               {<<>>, <<[name |-> "eyes", users |-> <<"V">>]>>}, MaxWorkspaceInputs)
    /\ derive = NoDerive

LiveReactionAddedOn(msgs) ==
    \E ev \in ReactionEventsOn(msgs, {"eyes"}, {"V"}) : OnReactionAdded(ev)

NextWorkspaces ==
    \/ Gateway({"eyes"}, {"V", "X"})
    \/ LiveReactionAddedOn({"m1", "b1"})
    \/ LiveSteps
    \/ Periodic

SpecWorkspaces == InitWorkspaces /\ [][NextWorkspaces]_vars

\* The units of one workspace: the client of start() and the two tasks it
\* spawns, the initial sync and the periodic loop, with the cancellation.
InitUnits == Start({"U"}, {"linked"}, MaxUnitInputs) /\ derive = NoDerive

\* start(), lines 237-246: the periodic loop exists once start() has spawned it.
SpawnedPeriodicTick == client.spawned /\ PeriodicTick

SpawnedPeriodic ==
    \/ SpawnedPeriodicTick
    \/ PerListMessages
    \/ PerFetchReactions
    \/ PerGetTask
    \/ PerChangeStatus
    \/ HistSteps("scan")

\* The tasks of the runtime, which run as long as the process does.
UnitClient ==
    /\ ~client.halted
    /\ ClientConnect \/ ClientStreamEnd \/ ClientCancelled \/ ClientAfterLoop

UnitStartupSync ==
    /\ ~client.halted
    /\ SpawnedStartupSync \/ HistSteps("startup")

UnitPeriodic == ~client.halted /\ SpawnedPeriodic

NextUnits ==
    \/ Cancel
    \/ ProcessExit
    \/ Gateway({"eyes"}, {"V", "X"})
    \/ UnitClient
    \/ UnitStartupSync
    \/ UnitPeriodic

SpecUnits == InitUnits /\ [][NextUnits]_vars

\* The same, scheduled: main.rs spawns start() for the workspace, the timer of
\* the loop fires every 300 s and nothing blocks the awaits of the client, of
\* a sync or of a pass; main returns one second after the cancellation.
SpecUnitsFair ==
    /\ SpecUnits
    /\ WF_vars(UnitClient)
    /\ WF_vars(UnitStartupSync)
    /\ WF_vars(UnitPeriodic)
    /\ WF_vars(ProcessExit)

\* The status derivation alone, applied to a reaction list under a mapping.
custom_mappings ==
    [in_progress |-> <<"tada">>, blocked |-> <<"eyes">>, completed |-> <<"hourglass">>]
overlapping_mappings ==
    [in_progress |-> <<"eyes">>, blocked |-> <<"hourglass">>,
     completed |-> <<"eyes", "white_check_mark">>]

AsReactions(names) == [i \in DOMAIN names |-> [name |-> names[i], users |-> <<"V">>]]

InitDerive ==
    /\ Start({"U"}, {"linked"}, 0)
    /\ \E names \in UNION {[1..k -> Emojis] : k \in 0..MaxLen} :
       \E mappings \in {default_mappings, custom_mappings, overlapping_mappings} :
          derive = [reactions |-> AsReactions(names), mappings |-> mappings,
                    status |-> None]

Derive ==
    /\ derive.status = None
    /\ derive' = [derive EXCEPT !.status = eval_status_from_reactions(
                      map_reactions_to_status(derive.reactions, derive.mappings))]
    /\ UNCHANGED <<messages, tasks, links, author, reactions, live, hist, per,
                   budget, replay, client, statuses,
                   link_rows, reqs,
                   pager, changes, snap>>

NextDerive == Derive

SpecDerive == InitDerive /\ [][NextDerive]_vars

\* The Status Registry alone: the calls its users make, in any order, for two
\* workspaces; every call holds the lock of the map from its start to its end.
\* The clock goes on with every call.
InitRegistry == Start({"U"}, {"linked"}, MaxRegistryCalls) /\ derive = NoDerive

utc_now == MaxRegistryCalls - budget

RegistryCall(op, w, result) ==
    /\ budget > 0
    /\ budget' = budget - 1
    /\ snap' = [op |-> op, workspace_name |-> w, result |-> result]
    /\ UNCHANGED <<messages, tasks, links, author, reactions, live, hist, per, replay,
                   derive, client, link_rows, reqs, pager, changes>>

CallSetConnected ==
    \E w \in Workspaces :
        /\ statuses' = set_connected(statuses, w, utc_now)
        /\ RegistryCall("set_connected", w, {})

CallSetDisconnected ==
    \E w \in Workspaces, error \in {None, "Connection closed"} :
        /\ statuses' = set_disconnected(statuses, w, error)
        /\ RegistryCall("set_disconnected", w, {})

CallHeartbeat ==
    \E w \in Workspaces :
        /\ statuses' = heartbeat(statuses, w, utc_now)
        /\ RegistryCall("heartbeat", w, {})

CallSetSyncing ==
    \E w \in Workspaces, progress \in {None, "Scanning channel"} :
        /\ statuses' = set_syncing(statuses, w, progress)
        /\ RegistryCall("set_syncing", w, {})

CallSetSyncComplete ==
    \E w \in Workspaces :
        /\ statuses' = set_sync_complete(statuses, w)
        /\ RegistryCall("set_sync_complete", w, {})

CallGetStatus ==
    \E w \in Workspaces :
        /\ statuses' = statuses
        /\ RegistryCall("get_status", w, get_status(statuses, w))

CallGetAllStatuses ==
    /\ statuses' = statuses
    /\ RegistryCall("get_all_statuses", None, get_all_statuses(statuses))

NextRegistry ==
    \/ CallSetConnected
    \/ CallSetDisconnected
    \/ CallHeartbeat
    \/ CallSetSyncing
    \/ CallSetSyncComplete
    \/ CallGetStatus
    \/ CallGetAllStatuses

SpecRegistry == InitRegistry /\ [][NextRegistry]_vars

\* The pagination alone: the calls for the channel and the answers of the
\* gateway.
InitPages == Start({"U"}, {"linked"}, 0) /\ derive = NoDerive

PagerCall == \E user_slack_id \in {"U"} : PagerStart(user_slack_id)

PagerRound == PagerFetch \/ PagerFetchFailed

NextPages ==
    \/ PagerCall
    \/ PagerFetch
    \/ PagerFetchFailed

SpecPages == InitPages /\ [][NextPages]_vars

\* The same, scheduled: a request that was sent is answered or fails.
SpecPagesFair == SpecPages /\ WF_vars(PagerRound)

\* Who is credited: the live handler run by events that carry no actor and the
\* start-up sync, over the reaction lists the gateway can answer with.  A
\* reaction whose `users` is missing on the wire has an empty list
\* (`#[serde(default)] users`, lines 43-44; `unwrap_or_default()`, lines 1020
\* and 1227).
WireUsers == {<<>>, <<"V">>, <<"X">>, <<"X", "V">>}

WireLists ==
    {<<>>}
    \cup {<<[name |-> e, users |-> us]>> : e \in {"tada", "eyes"}, us \in WireUsers}
    \cup {<<[name |-> "tada", users |-> us], [name |-> "eyes", users |-> vs]>> :
              us \in WireUsers, vs \in WireUsers}
    \cup {<<[name |-> "eyes", users |-> us], [name |-> "tada", users |-> vs]>> :
              us \in WireUsers, vs \in WireUsers}

InitCredit ==
    /\ StartWith({"U"}, {"linked"}, WireLists, MaxCreditInputs)
    /\ derive = NoDerive

\* A reaction_removed or message_changed event, or a reaction_added event of X.
LiveEvent ==
    /\ Quiet
    /\ \E ev \in Events({"eyes", "white_check_mark"}, {"X"}) :
          OnReactionAdded(ev) \/ OnReactionRemoved(ev) \/ OnMessageEvent(ev)

NextCredit ==
    \/ LiveEvent
    \/ LiveSteps
    \/ QuietStartupSync
    \/ HistSteps("startup")

SpecCredit == InitCredit /\ [][NextCredit]_vars

(***************************************************************************)
(* Properties.                                                             *)
(***************************************************************************)
\* C1: whatever the interleaving of the live and the historical reconcile
\* calls for one channel and timestamp, the Message store never holds two rows
\* with the same dedup key.
C1_OneMessagePerKey ==
    \A i, j \in DOMAIN messages :
        messages[i].external_id = messages[j].external_id => i = j

\* C2: in every reachable state each Message has at most one Task, also when
\* the live handler, the start-up sync and the link-triggered sync reconcile
\* the same message concurrently.
C2_OneTaskPerMessage ==
    \A i, j \in DOMAIN tasks : tasks[i].message_id = tasks[j].message_id => i = j

DerivedStatus(m) ==
    eval_status_from_reactions(map_reactions_to_status(reactions[m], get_emoji_mappings))

TasksMatchGateway ==
    \A i \in DOMAIN tasks :
        tasks[i].status = DerivedStatus(GMsgOf(messages[tasks[i].message_id]))

\* C3: once the reaction list of a message no longer changes and the fetches
\* succeed, the status of every Task of the message eventually equals the
\* status derived from that list and stays equal to it, the periodic loop
\* being scheduled fairly.
C3_StatusConverges == <>[]TasksMatchGateway

\* The same convergence for the runs in which no Message ever has two Tasks.
ConvergesWhileOneTaskPerMessage == ([]C2_OneTaskPerMessage) => <>[]TasksMatchGateway

\* C4: a second live reconciliation with the arguments (and the fetch outcome)
\* of the one that has just ended, nothing else having acted, changes neither
\* the Message store nor the Task store.
C4_SecondRunChangesNothing ==
    [][(replay.run = 2 /\ replay'.run = 2) => (messages' = messages /\ tasks' = tasks)]_vars

\* The same for the stores in which no key has two rows.
SecondRunChangesNothingWithoutDuplicates ==
    [][(replay.run = 2 /\ replay'.run = 2 /\ C1_OneMessagePerKey /\ C2_OneTaskPerMessage)
         => (messages' = messages /\ tasks' = tasks)]_vars

SetOf(seq) == {seq[i] : i \in DOMAIN seq}

Disjoint(mappings) ==
    /\ SetOf(mappings.in_progress) \cap SetOf(mappings.blocked) = {}
    /\ SetOf(mappings.in_progress) \cap SetOf(mappings.completed) = {}
    /\ SetOf(mappings.blocked) \cap SetOf(mappings.completed) = {}

Precedence(names, mappings) ==
    IF names \cap SetOf(mappings.completed) # {} THEN "Completed"
    ELSE IF names \cap SetOf(mappings.blocked) # {} THEN "Blocked"
    ELSE IF names \cap SetOf(mappings.in_progress) # {} THEN "InProgress"
    ELSE "Blank"

\* C5: under mappings with pairwise disjoint sets the derived status is
\* Completed if a reaction name is in the completed set, else Blocked if one is
\* in the blocked set, else InProgress if one is in the in_progress set, else
\* Blank: a function of the set of names, not of their order or multiplicity.
C5_StatusByPrecedence ==
    (derive.status # None /\ Disjoint(derive.mappings))
        => derive.status = Precedence({derive.reactions[i].name : i \in DOMAIN derive.reactions},
                                      derive.mappings)

C5_Witness ==
    /\ derive.mappings = default_mappings
    /\ Len(derive.reactions) = 2
    /\ derive.reactions[1].name = "hourglass"
    /\ derive.reactions[2].name = "white_check_mark"
    /\ derive.status = "Completed"

\* C6: no step inserts a Task whose status is Blank, and a live run that finds
\* no Task and computes Blank leaves the Task store unchanged.
C6_NoBlankTaskInserted ==
    [][/\ \A i \in DOMAIN tasks' : i > Len(tasks) => tasks'[i].status # "Blank"
       /\ (live.pc = "write_task" /\ live' # live /\ live.task = 0 /\ live.status = "Blank")
             => tasks' = tasks]_vars

C6_Witness == live.pc = "idle" /\ live.exit = "blank"

\* C7: a live reconciliation of a message whose author has no Person, no link
\* or a link with is_linked = false is over at once, returns Ok and changes
\* neither the Message store nor the Task store.
C7_IneligibleAuthorIsSkipped ==
    [][(live.pc = "idle" /\ live' # live /\ replay'.run > 0
        /\ LET assignee == get_by_external_id(author[replay'.args[1]])
           IN  assignee = None \/ links[assignee] # "linked")
         => (live'.pc = "idle" /\ live'.ret = "Ok"
             /\ messages' = messages /\ tasks' = tasks)]_vars

C7_Witness == live.pc = "idle" /\ live.exit = "not_linked" /\ live.ret = "Ok"

\* C8: the last step of a live run whose fetch failed, that has no triggering
\* emoji and found a Task leaves the status of every Task as it was.
C8_FailedFetchKeepsStatus ==
    [][(live' # live /\ live.pc = "write_task" /\ live.failed /\ live.trigger = None
        /\ live.task # 0)
         => (/\ Len(tasks') = Len(tasks)
             /\ \A i \in DOMAIN tasks : tasks'[i].status = tasks[i].status
             /\ live'.pc = "idle")]_vars

C8_Witness ==
    /\ live.pc = "idle" /\ live.exit = "skipped"
    /\ \E i \in DOMAIN tasks : tasks[i].status # "Blank"

\* C9: a live run whose fetch failed and that carries a mapped triggering emoji
\* writes that emoji's status to the Task it found, or inserts a Task of the
\* message with that status when it found none.
C9_FailedFetchUsesTrigger ==
    [][(live' # live /\ live.pc = "write_task" /\ live.failed /\ live.trigger # None
        /\ emoji_to_status(live.trigger, get_emoji_mappings) # None)
         => IF live.task # 0
            THEN /\ Len(tasks') = Len(tasks)
                 /\ tasks'[live.task].status =
                        emoji_to_status(live.trigger, get_emoji_mappings)
            ELSE /\ Len(tasks') = Len(tasks) + 1
                 /\ tasks'[Len(tasks')].status =
                        emoji_to_status(live.trigger, get_emoji_mappings)
                 /\ tasks'[Len(tasks')].message_id = live.message]_vars

C9_Witness ==
    /\ live.pc = "idle" /\ live.exit \in {"updated", "created"}
    /\ replay.run = 1 /\ replay.failed = "yes" /\ replay.args[3] = "white_check_mark"
    /\ \E i \in DOMAIN tasks : tasks[i].status = "Completed"

\* C10: when a live run triggered by reaction_added from a member ends, no
\* other writer having touched the owner of the Task meanwhile, the Task's
\* assigned_by is that member's Person, whoever is first in the fetched list.
C10_OwnerIsTheActor ==
    [][(/\ live' # live /\ live.pc \in {"write_task", "write_owner"} /\ live'.pc = "idle"
        /\ live.trigger # None /\ live.reactor # None
        /\ live.task # 0 => tasks[live.task].assigned_by = live.task_assigned_by)
         => LET t == IF live.task # 0 THEN live.task ELSE Len(tasks')
            IN  tasks'[t].assigned_by = get_by_external_id(live.reactor)]_vars

\* The same for the actors that have a Person.
OwnerIsTheKnownActor ==
    [][(/\ live' # live /\ live.pc \in {"write_task", "write_owner"} /\ live'.pc = "idle"
        /\ live.trigger # None /\ get_by_external_id(live.reactor) # None
        /\ live.task # 0 => tasks[live.task].assigned_by = live.task_assigned_by)
         => LET t == IF live.task # 0 THEN live.task ELSE Len(tasks')
            IN  tasks'[t].assigned_by = get_by_external_id(live.reactor)]_vars

\* C12: no step deletes a Task: every Task row stays, for the same message and
\* the same assignee.  A reconciliation started by reaction_removed that has
\* read the reaction list derives the status from what is left (InProgress when
\* only eyes is left) and writes it to the existing Task, inserting nothing.
C12_TasksPersist ==
    [][/\ Len(tasks') >= Len(tasks)
       /\ \A i \in DOMAIN tasks : /\ tasks'[i].message_id = tasks[i].message_id
                                   /\ tasks'[i].assigned_to = tasks[i].assigned_to
       /\ (/\ live.pc = "fetch_reactions" /\ live'.pc = "write_task"
           /\ live.trigger = None /\ ~live'.failed)
             => live'.status = DerivedStatus(live.msg)
       /\ (/\ live.pc = "write_task" /\ live' # live /\ live.trigger = None
           /\ ~live.failed /\ live.task # 0)
             => /\ Len(tasks') = Len(tasks)
                /\ tasks'[live.task].status = live.status]_vars

\* A reaction_removed run has read the list [eyes] and left the Task InProgress.
C12_Witness ==
    /\ live.pc = "idle" /\ live.exit = "updated"
    /\ replay.args = <<"m1", None, None>> /\ replay.failed = "no"
    /\ reactions["m1"] = <<[name |-> "eyes", users |-> <<"V">>]>>
    /\ Len(tasks) = 1 /\ tasks[1].status = "InProgress"

\* C13: when a historical sync of a member returns, and the message written by
\* that member carries a list whose derived status is Blocked (hourglass, nothing
\* of higher precedence), there is exactly one Message row and exactly one Task,
\* Blocked and assigned to the member: the first sync creates it, a further sync
\* creates no other.
C13_BackfillCreatesOneBlockedTask ==
    [][\A p \in {"startup", "link"} :
          (/\ hist[p].pc # "idle" /\ hist'[p].pc = "idle"
           /\ author["m1"] = hist'[p].member
           /\ history_status(reactions["m1"]) = "Blocked")
            => /\ hist'[p].ret = "Ok"
               /\ Len(messages') = 1
               /\ Len(tasks') = 1
               /\ tasks'[1].status = "Blocked"
               /\ tasks'[1].assigned_to = get_by_external_id(hist'[p].member)
               /\ tasks'[1].message_id = 1
               /\ tasks = <<>> => hist'[p].exit = "created"]_vars

\* Only link requests were served; the sync of U found the Blocked Task that an
\* earlier sync of U created, and left it alone.
C13_Witness ==
    /\ hist["link"].pc = "idle" /\ hist["link"].ret = "Ok"
    /\ hist["link"].exit = "unchanged" /\ hist["link"].member = "U"
    /\ hist["startup"].ret = None /\ live.ret = None
    /\ author["m1"] = "U"
    /\ reactions["m1"] = <<[name |-> "hourglass", users |-> <<"V">>]>>
    /\ Len(tasks) = 1 /\ tasks[1].status = "Blocked" /\ tasks[1].assigned_to = "pU"

\* C14: a step of a historical sync of member M that changes the Message or the
\* Task store works on a message written by M whose reaction list has a mapped
\* reaction, and the rows it inserts or updates are the rows of that message.
C14_SyncTouchesOnlyMembersMessages ==
    [][\A p \in {"startup", "link"} :
          (hist'[p] # hist[p] /\ (messages' # messages \/ tasks' # tasks))
            => LET h == hist[p]
                   key == message_external_id(ChannelOf(h.msg), TsOf(h.msg))
               IN  /\ h.msg \in GMsgs
                   /\ author[h.msg] = h.member
                   /\ h.rs # <<>>
                   /\ map_reactions_to_status(h.rs, get_emoji_mappings) # {}
                   /\ \A i \in DOMAIN messages' :
                         (i > Len(messages) \/ messages'[i] # messages[i])
                            => messages'[i].external_id = key
                   /\ \A i \in DOMAIN tasks' :
                         (i > Len(tasks) \/ tasks'[i] # tasks[i])
                            => messages'[tasks'[i].message_id].external_id = key]_vars

\* The sync of U has returned and has touched nothing, the only message being
\* one of linked member V with a mapped reaction.
C14_Witness ==
    /\ hist["link"].pc = "idle" /\ hist["link"].ret = "Ok" /\ hist["link"].member = "U"
    /\ author["m1"] = "V" /\ links["pV"] = "linked"
    /\ history_status(reactions["m1"]) # "Blank"
    /\ messages = <<>> /\ tasks = <<>>

\* C11: once a live reaction_added reconciliation of the message has created or
\* updated its Task, a historical sync of the same message over the same
\* reaction list changes neither the status nor the assigned_by of the Task.
C11_BatchKeepsLiveResult ==
    [][(/\ live.exit \in {"created", "updated"}
        /\ \E p \in HistProcs : hist[p].pc # "idle")
         => \A i \in DOMAIN tasks : /\ tasks'[i].status = tasks[i].status
                                    /\ tasks'[i].assigned_by = tasks[i].assigned_by]_vars

\* The same for the status alone, when the live run has read the reaction list.
BatchKeepsLiveStatus ==
    [][(/\ live.exit \in {"created", "updated"}
        /\ \E p \in HistProcs : hist[p].pc # "idle"
        /\ \A i \in DOMAIN tasks : tasks[i].status = DerivedStatus("m1"))
         => \A i \in DOMAIN tasks : tasks'[i].status = tasks[i].status]_vars

\* The same for the owner, when the live run has read the reaction list.
BatchKeepsLiveOwner ==
    [][(/\ live.exit \in {"created", "updated"}
        /\ \E p \in HistProcs : hist[p].pc # "idle"
        /\ \A i \in DOMAIN tasks : tasks[i].status = DerivedStatus("m1"))
         => \A i \in DOMAIN tasks : tasks'[i].assigned_by = tasks[i].assigned_by]_vars

\* C15: for the frame read last: an acknowledgment is sent only for a text
\* envelope that carries an id, with that id and at most once; once the client
\* is past the send, exactly one was sent, whatever the envelope's type; the
\* event is dispatched at most once, never before the acknowledgment and never
\* after a failed send of it.
C15_AckOnceBeforeDispatch ==
    client.now > 0 =>
       LET f == client.frame
           has_id == f.kind = "text" /\ f.id # None
       IN  /\ Len(client.acks) <= 1
           /\ \A i \in DOMAIN client.acks : has_id /\ client.acks[i] = f.id
           /\ (has_id /\ client.pc \notin {"heartbeat", "match", "ack"})
                 => client.acks = <<f.id>>
           /\ client.dispatched <= 1
           /\ (client.dispatched = 1 /\ has_id) => client.acks = <<f.id>>
           /\ client.exit = "ack_failed" => client.dispatched = 0

\* An envelope of another type than events_api has been acknowledged, after an
\* event of an earlier envelope was dispatched and has left a Task.
C15_Witness ==
    /\ client.pc = "select" /\ client.now > 0
    /\ client.frame = Envelope("e2", "interactive", NoEvent)
    /\ client.acks = <<"e2">>
    /\ tasks # <<>>

\* C16: the registry entry exists as long as the client is connected, and its
\* last_heartbeat is the time of the frame read last in every state but the one
\* between the read and the heartbeat, in which nothing has been done with the
\* frame yet.
C16_HeartbeatBeforeFrameIsActedOn ==
    /\ (client.pc # "init" /\ client.exit # "handshake") => W \in DOMAIN statuses
    /\ (W \in DOMAIN statuses /\ client.pc # "heartbeat")
          => statuses[W].last_heartbeat = client.now

\* The second frame is a transport error; the heartbeat is that of its time.
C16_Witness ==
    /\ client.pc = "match" /\ client.frame.kind = "error"
    /\ client.now = 2 /\ statuses[W].last_heartbeat = 2

\* C17: once start() has returned after the loop, for whatever reason, the
\* registry says the workspace is not connected.
C17_DisconnectedAfterLoop ==
    (client.pc = "done" /\ client.exit # "handshake") => ~is_connected(statuses, W)

\* The same for the exits that go through the end of start().
DisconnectedAfterBreak ==
    (client.pc = "done" /\ client.exit \in {"close", "error", "stream_end", "cancelled"})
       => ~is_connected(statuses, W)

\* C18: once start() has returned after a close frame or a transport error, the
\* error field of the registry entry is the reason of the disconnection.
C18_ReasonKept ==
    (client.pc = "done" /\ client.exit \in {"close", "error"})
       => statuses[W].error_message = IF client.exit = "close" THEN "Connection closed"
                                      ELSE "transport error"

\* C19: once the client has left its loop, or the registry says disconnected,
\* no step performs a handshake and no step turns the connected flag on.
C19_NoReconnect ==
    [][(\/ client.pc \in {"after_loop", "done"}
        \/ (W \in DOMAIN statuses /\ ~statuses[W].is_connected))
         => /\ client'.handshakes = client.handshakes
            /\ is_connected(statuses', W) => is_connected(statuses, W)]_vars

\* The client has disconnected on a close frame after its only handshake.
C19_Witness ==
    /\ client.pc = "done" /\ client.exit = "close"
    /\ client.handshakes = 1 /\ client.handshakes < MaxHandshakes
    /\ ~is_connected(statuses, W)

InLoop ==
    client.pc \in {"select", "heartbeat", "match", "ack", "pong", "dispatch", "handling"}

\* C20: a client that is in its loop when the token is cancelled ends with a
\* close frame attempted, start() returned and the entry disconnected with no
\* error.
C20_CancelledClientCloses ==
    (client.cancelled /\ InLoop)
       ~> (/\ client.pc = "done" /\ client.close_sent # None
           /\ ~is_connected(statuses, W) /\ statuses[W].error_message = None)

\* C20, amended: a client that is in its loop when the token is cancelled
\* leaves the loop and start() returns; when it has left through the
\* cancellation branch it has attempted the close frame, whose failure changes
\* nothing, start() has returned Ok and the entry is disconnected with no error.
C20_CancelledClientLeaves ==
    /\ (client.cancelled /\ InLoop) ~> (client.pc = "done")
    /\ [](client.pc = "done" /\ client.exit = "cancelled"
             => /\ client.close_sent # None /\ client.ret = "Ok"
                /\ ~is_connected(statuses, W) /\ statuses[W].error_message = None)

\* The close frame could not be sent, and the client is disconnected all the same.
C20_Witness ==
    /\ client.pc = "done" /\ client.exit = "cancelled" /\ client.close_sent = "failed"
    /\ ~is_connected(statuses, W)

(***************************************************************************)
(* C21.  The periodic loop of a workspace runs a pass again and again,     *)
(* whatever becomes of the connection: also after the client is            *)
(* Disconnected, and also for a workspace whose handshake failed: as long  *)
(* as the process is not cancelled, a pass starts infinitely often.        *)
(***************************************************************************)
C21_PassesRecur == [](~client.cancelled) => []<>(per.pc = "scan")

\* What the loop does: once start() has spawned it, passes recur as long as
\* the process is not cancelled, the connection being up or closed.
PassesRecurOnceSpawned ==
    [](~client.cancelled) => [](client.spawned => []<>(per.pc = "scan"))

(***************************************************************************)
(* C22.  In a periodic pass a failed reaction fetch for a message leaves   *)
(* the tasks as they are, the pass goes on with the remaining messages and *)
(* does not change the task of the skipped message; a failure of get_all   *)
(* ends the pass with no task changed and no message processed; and the    *)
(* loop runs its next pass whatever happened in this one.                  *)
(***************************************************************************)
C22_PassSurvivesFailures ==
    /\ [][(per.pc = "fetch" /\ per'.pc # "fetch" /\ per'.pc # "get_task")
            => (tasks' = tasks /\ Len(per.todo) = 1 /\ per'.pc = "idle")]_vars
    /\ [][(per.pc = "fetch" /\ per'.pc = "fetch" /\ per' # per)
            => (tasks' = tasks /\ per'.todo = Tail(per.todo))]_vars
    /\ [][\A i \in DOMAIN tasks :
              tasks'[i] # tasks[i] => tasks[i].message_id \notin per.skipped]_vars
    /\ [][(per.pc = "scan" /\ per'.failed)
            => (tasks' = tasks /\ per'.pc = "idle" /\ per'.todo = <<>>)]_vars
    /\ [](per.failed => per.pc = "idle")
    /\ []<>(per.pc = "scan")

\* The fetch for the first row has failed, the row has a task, and the pass is
\* at the second row.
C22_Witness ==
    /\ per.pc = "fetch"
    /\ per.skipped = {1}
    /\ Head(per.todo) = 2
    /\ \E i \in DOMAIN tasks : tasks[i].message_id = 1

(***************************************************************************)
(* C23.  Every run of the historical sync ends with set_sync_complete as   *)
(* its last write to the registry, whatever its return path; hence when no *)
(* run is in progress the entry of the workspace has is_syncing = FALSE    *)
(* and no progress text, also after runs that overlapped.                  *)
(***************************************************************************)
NotSyncing(ss) ==
    W \in DOMAIN ss => (~ss[W].is_syncing /\ ss[W].sync_progress = None)

C23_SyncEndsNotSyncing ==
    /\ []((\A p \in HistProcs : hist[p].pc = "idle") => NotSyncing(statuses))
    /\ [][\A p \in HistProcs :
              (hist'[p] # hist[p] /\ hist'[p].pc = "idle") => NotSyncing(statuses')]_vars

\* The two syncs overlapped while the client was connected, the entry said
\* syncing, and both have returned.
C23_Witness ==
    /\ \A p \in HistProcs : hist[p].pc = "idle"
    /\ hist["startup"].exit = "created"
    /\ hist["link"].exit \in {"unchanged", "updated"}
    /\ W \in DOMAIN statuses
    /\ statuses[W].is_connected
    /\ Len(messages) = 2

(***************************************************************************)
(* C24.  The update paths of a workspace touch only its own data: the      *)
(* periodic pass of W changes no task whose message row was captured for   *)
(* another workspace, a reconciliation for a message of one workspace      *)
(* changes no task of a row captured for another, and the row a handler    *)
(* resolves for its message is a row captured for the same workspace       *)
(* (messages of two workspaces with equal channel and timestamp have       *)
(* distinct rows).                                                         *)
(***************************************************************************)
CapturedFor(row) ==
    WorkspaceOf(CHOOSE m \in DOMAIN reactions : TextOf(m) = row.content)

TasksChangedOnlyFor(w) ==
    \A i \in DOMAIN tasks :
       tasks'[i] # tasks[i] => CapturedFor(messages[tasks[i].message_id]) = w

C24_WorkspacesIsolated ==
    /\ [][(per.pc = "write" /\ per' # per) => TasksChangedOnlyFor(W)]_vars
    /\ [][(live.pc # "idle" /\ live' # live)
            => TasksChangedOnlyFor(WorkspaceOf(live.msg))]_vars
    /\ [](live.message # 0
            => CapturedFor(messages[live.message]) = WorkspaceOf(live.msg))

(***************************************************************************)
(* C25.  At most one Protocol Client, with its periodic loop, runs for a   *)
(* workspace name, also after spawn_bot was called for a workspace that    *)
(* has a running client.                                                   *)
(***************************************************************************)
RunningClients == (IF InLoop THEN 1 ELSE 0) + client.extra

C25_OneClientPerWorkspace == RunningClients <= 1

(***************************************************************************)
(* C26.  After any sequence and interleaving of create, link_workspace,    *)
(* unlink_workspace, delete and set_active_workspace, a person has at most *)
(* one workspace link with is_active = TRUE.                               *)
(***************************************************************************)
ActiveLinks(person_id) == {i \in get_by_person(person_id) : link_rows[i].is_active}

C26_OneActiveLinkPerPerson ==
    \A p \in LinkPersons : Cardinality(ActiveLinks(p)) <= 1

(***************************************************************************)
(* C27.  A live reconciliation and a periodic pass handle the same         *)
(* message, each has fetched its reaction list and none has written, the   *)
(* list having changed between the two fetches (the pass holds the latest  *)
(* list) and not changing any more: once both have completed, the status   *)
(* of the task is the status derived from the latest list.                 *)
(***************************************************************************)
Race ==
    /\ Len(messages) = 1 /\ Len(tasks) = 1
    /\ live.pc = "write_task" /\ ~live.failed /\ live.task = 1
    /\ live.status # live_status(reactions[live.msg], live.trigger)
    /\ per.pc \in {"get_task", "write"} /\ Head(per.todo) = live.message
    /\ per.status = DerivedStatus(live.msg)
    /\ budget = 0

BothCompleted == live.pc = "idle" /\ per.pc = "idle"

C27_RaceEndsWithLatestStatus == [](Race => [](BothCompleted => TasksMatchGateway))

(***************************************************************************)
(* C28.  After the cancellation every unit of the workspace (the client,   *)
(* the periodic loop, a historical sync in flight) eventually terminates,  *)
(* and no periodic pass starts once the client has terminated on the       *)
(* cancellation.                                                           *)
(***************************************************************************)
UnitsTerminated ==
    \/ client.halted
    \/ /\ client.pc = "done"
       /\ \A p \in HistProcs : hist[p].pc = "idle"
       /\ ~client.spawned

PassStarts == per.pc = "idle" /\ per'.pc = "scan"

C28_UnitsStopOnCancellation ==
    /\ client.cancelled ~> UnitsTerminated
    /\ [][(client.pc = "done" /\ client.exit = "cancelled") => ~PassStarts]_vars

\* What holds: the units end when main returns, a second after the
\* cancellation, and no pass starts after that.
UnitsStopAtExit ==
    /\ client.cancelled ~> client.halted
    /\ [][client.halted => ~PassStarts]_vars

(***************************************************************************)
(* C29.  A text frame that is no envelope and an error returned by the     *)
(* handler of a dispatched event neither end the client loop nor change    *)
(* the connection state: nothing is acknowledged for the text, the         *)
(* registry still reports the workspace connected, and the client is back  *)
(* at its select!, where the next frame is read.                           *)
(***************************************************************************)
MalformedText == client.pc = "match" /\ client.frame.kind = "garbage"

HandlerFailed == client.pc = "handling" /\ live.pc = "idle" /\ live.ret = "Err"

LoopGoesOn ==
    /\ client'.pc = "select"
    /\ client'.ret = None /\ client'.exit = None
    /\ client'.acks = client.acks
    /\ statuses' = statuses
    /\ is_connected(statuses', W)

UnmappedEmoji(ev) ==
    /\ ev.kind \in {"reaction_added", "reaction_removed"}
    /\ emoji_to_status(ev.reaction, get_emoji_mappings) = None

UnknownType(ev) == ev.kind \notin {"reaction_added", "reaction_removed", "message"}

OtherSubtype(ev) == ev.kind = "message" /\ ev.subtype # "message_changed"

NothingToDo(ev) == UnmappedEmoji(ev) \/ UnknownType(ev) \/ OtherSubtype(ev)

C30_IgnoredEventsTouchNothing ==
    /\ [][(/\ client.pc = "dispatch" /\ client'.pc # client.pc
           /\ NothingToDo(client.frame.event))
             => (/\ live'.pc = "idle" /\ ~live'.fetched
                 /\ messages' = messages /\ tasks' = tasks)]_vars
    /\ [][(client.pc = "handling" /\ NothingToDo(client.frame.event))
             => (live' = live /\ messages' = messages /\ tasks' = tasks)]_vars

\* An unmapped reaction was dispatched and handled while the stores held the
\* Message and the Task of an earlier event.
C30_Witness ==
    /\ client.pc = "handling"
    /\ UnmappedEmoji(client.frame.event)
    /\ live.pc = "idle" /\ live.exit = "ignored"
    /\ messages # <<>> /\ tasks # <<>>

\* The same for the other two kinds of event.
UnknownTypeHandled ==
    client.pc = "handling" /\ UnknownType(client.frame.event) /\ tasks # <<>>

OtherSubtypeHandled ==
    client.pc = "handling" /\ OtherSubtype(client.frame.event) /\ tasks # <<>>

(***************************************************************************)
(* C31.  The pagination of one channel sends at most 5 page requests in a  *)
(* run and always ends: at the page cap, at a missing or empty cursor or   *)
(* at a response that is not ok, and then it returns the matching          *)
(* messages of the pages it was given.                                     *)
(***************************************************************************)
RECURSIVE Matching(_, _)
Matching(pages, user_slack_id) ==
    IF pages = <<>> THEN <<>>
    ELSE LET page == Head(pages)
         IN  (IF page # <<>> /\ page[1].user = user_slack_id /\ page[1].reactions.some
              THEN page ELSE <<>>)
             \o Matching(Tail(pages), user_slack_id)

PagerReturned == pager.pc = "idle" /\ pager.ret # None

C31_PaginationIsCappedAndEnds ==
    /\ [](pager.requests <= MAX_PAGES)
    /\ (pager.pc = "fetch") ~> PagerReturned
    /\ [](PagerReturned /\ pager.ret = "Ok"
            => /\ pager.exit \in {"page_cap", "no_metadata", "no_cursor", "empty_cursor",
                                  "not_ok"}
               /\ pager.exit = "page_cap" <=> pager.pages = MAX_PAGES
               /\ pager.all_messages = Matching(pager.served, pager.user))

\* The run ended at the cap after five requests, with messages of two pages.
C31_Witness ==
    /\ PagerReturned /\ pager.exit = "page_cap" /\ pager.requests = MAX_PAGES
    /\ Len(pager.all_messages) = 2

\* The other ways out.
PagerEndedEarly(exit) ==
    PagerReturned /\ pager.exit = exit /\ pager.all_messages # <<>>

(***************************************************************************)
(* C32.  Every change of the status of a Task, by a live reconciliation,   *)
(* a periodic pass or a historical sync, appends exactly one Change record *)
(* of that task with the old and the new status.                           *)
(***************************************************************************)
StatusChanged(i) == i \in DOMAIN tasks /\ tasks'[i].status # tasks[i].status

C32_StatusChangeIsRecorded ==
    [][\A i \in DOMAIN tasks :
          StatusChanged(i)
            => /\ Len(changes') = Len(changes) + 1
               /\ changes'[Len(changes')].task_id = i
               /\ changes'[Len(changes')].old = tasks[i].status
               /\ changes'[Len(changes')].new = tasks'[i].status]_vars

\* What the code does: the table of the Change records is never written.
NoChangeIsEverRecorded == changes = <<>>

(***************************************************************************)
(* C33.  Every write of the registry for a workspace leaves the entries of *)
(* all other workspaces as they are; heartbeat, set_syncing and            *)
(* set_sync_complete also leave the workspace's is_connected, connected_at *)
(* and error_message, and set_disconnected leaves its connected_at and     *)
(* last_heartbeat.                                                         *)
(***************************************************************************)
RegistryWrites ==
    {"set_connected", "set_disconnected", "heartbeat", "set_syncing",
     "set_sync_complete"}

Called(ops) == snap' # snap /\ snap'.op \in ops

OthersKept(w) ==
    /\ DOMAIN statuses' \ {w} = DOMAIN statuses \ {w}
    /\ \A x \in DOMAIN statuses \ {w} : statuses'[x] = statuses[x]

Had(w) == w \in DOMAIN statuses /\ w \in DOMAIN statuses'

C33_RegistryWritesAreLocal ==
    /\ [][Called(RegistryWrites) => OthersKept(snap'.workspace_name)]_vars
    /\ [][(/\ Called({"heartbeat", "set_syncing", "set_sync_complete"})
           /\ Had(snap'.workspace_name))
             => LET w == snap'.workspace_name
                IN  /\ statuses'[w].is_connected = statuses[w].is_connected
                    /\ statuses'[w].connected_at = statuses[w].connected_at
                    /\ statuses'[w].error_message = statuses[w].error_message]_vars
    /\ [][(Called({"set_disconnected"}) /\ Had(snap'.workspace_name))
             => LET w == snap'.workspace_name
                IN  /\ statuses'[w].connected_at = statuses[w].connected_at
                    /\ statuses'[w].last_heartbeat = statuses[w].last_heartbeat]_vars

\* A connected workspace with a heartbeat later than its connection was marked
\* disconnected while the other workspace has an entry.
C33_Witness ==
    /\ snap.op = "set_disconnected" /\ snap.workspace_name = "W"
    /\ DOMAIN statuses = {"W", "B"}
    /\ ~statuses["W"].is_connected
    /\ statuses["W"].connected_at # NoTime
    /\ statuses["W"].last_heartbeat > statuses["W"].connected_at
    /\ statuses["B"].is_connected

(***************************************************************************)
(* C34.  In every state of the registry and in every snapshot returned by  *)
(* get_status or get_all_statuses, every entry with a sync_progress is     *)
(* syncing, and every connected entry has a connected_at and a             *)
(* last_heartbeat and no error_message, whatever the interleaving of the   *)
(* calls.                                                                  *)
(***************************************************************************)
Consistent(status) ==
    /\ status.sync_progress # None => status.is_syncing
    /\ status.is_connected
         => /\ status.connected_at # NoTime
            /\ status.last_heartbeat # NoTime
            /\ status.error_message = None

\* The same of the entries alone, for the client and the syncs that write them.
RegistryConsistent == \A w \in DOMAIN statuses : Consistent(statuses[w])

C34_EntriesAreConsistent ==
    /\ \A w \in DOMAIN statuses : Consistent(statuses[w])
    /\ snap.op \in {"get_status", "get_all_statuses"}
         => \A e \in snap.result : Consistent(e.status)

\* A reader was given the entries of a connected, syncing workspace and of a
\* disconnected one.
C34_Witness ==
    /\ snap.op = "get_all_statuses"
    /\ \E e \in snap.result :
          e.status.is_connected /\ e.status.is_syncing
          /\ e.status.sync_progress # None
    /\ \E e \in snap.result : ~e.status.is_connected /\ e.status.error_message # None

(***************************************************************************)
(* C39.  heartbeat, set_syncing and set_sync_complete for a workspace that *)
(* has no entry leave the registry as it is and make no entry; only        *)
(* set_connected and set_disconnected make one, and nothing ever removes   *)
(* one.                                                                    *)
(***************************************************************************)
C39_OnlyConnectionCallsMakeEntries ==
    /\ [][(/\ Called({"heartbeat", "set_syncing", "set_sync_complete"})
           /\ snap'.workspace_name \notin DOMAIN statuses)
             => statuses' = statuses]_vars
    /\ [][DOMAIN statuses' # DOMAIN statuses
             => /\ Called({"set_connected", "set_disconnected"})
                /\ DOMAIN statuses' = DOMAIN statuses \cup {snap'.workspace_name}]_vars
    /\ [][DOMAIN statuses \subseteq DOMAIN statuses']_vars

\* A sync started from the link handler for a workspace whose client never
\* connected runs with nothing to be seen in the registry.
UnconnectedSyncShowsNothing ==
    (hist["link"].pc # "idle" /\ client.handshakes = 0) => statuses = NoStatuses

UnconnectedSyncRuns == hist["link"].pc # "idle" /\ client.handshakes = 0

\* The progress of a sync was reported for a workspace that has no entry,
\* while the other workspace has one: nothing is recorded.
C39_Witness ==
    /\ snap.op = "set_syncing" /\ snap.workspace_name = "W"
    /\ DOMAIN statuses = {"B"}

(***************************************************************************)
(* C35.  When the reaction fetch of a live reconciliation fails and the    *)
(* event carries no actor that is a known Person, the resolved owner is    *)
(* none, and the non-null assigned_by of the Task that was found is        *)
(* overwritten with none, the status of the Task being left untouched.     *)
(***************************************************************************)
OwnerlessFailedRun ==
    /\ live.pc = "write_task" /\ live' # live
    /\ live.failed /\ live.assigner_from_event = None
    /\ live.task # 0 /\ live.task_assigned_by # None

OwnerWrite ==
    /\ live.pc = "write_owner" /\ live' # live
    /\ live.failed /\ live.assigner_from_event = None

Credited(rs) ==
    LET with_users == {i \in DOMAIN rs : rs[i].users # <<>>}
    IN  IF with_users = {} THEN None
        ELSE LET first == CHOOSE i \in with_users : \A j \in with_users : i <= j
                 slack_id == rs[first].users[1]
             IN  IF \E person \in persons : person.external_id = slack_id
                 THEN (CHOOSE person \in persons : person.external_id = slack_id).id
                 ELSE None

LiveOwnerResolved ==
    /\ live.pc = "fetch_reactions" /\ live'.pc = "write_task"
    /\ live.assigner_from_event = None /\ ~live'.failed

LiveOwnerWritten ==
    /\ live.pc \in {"write_task", "write_owner"} /\ live'.pc = "idle"
    /\ live.assigner_from_event = None /\ ~live.failed
    /\ live'.exit \in {"created", "updated"}

HistOwnerWritten(p) ==
    /\ hist[p].pc \in {"create_task", "write_owner"} /\ hist'[p].pc = "idle"

TaskOf(ts, message) == CHOOSE i \in DOMAIN ts : ts[i].message_id = message

C36_EmptyListSkipped ==
    /\ tasks # <<>> /\ tasks[1].assigned_by = "pV"
    /\ reactions["m1"] = <<[name |-> "tada", users |-> <<>>],
                           [name |-> "eyes", users |-> <<"V">>]>>

MappedTrigger ==
    /\ live.trigger # None
    /\ emoji_to_status(live.trigger, get_emoji_mappings) # None

NoMappedReaction(rs) ==
    \A i \in DOMAIN rs : emoji_to_status(rs[i].name, get_emoji_mappings) = None

\* The fetch of a run with a mapped triggering emoji is answered, or fails,
\* and the list it is left with holds no mapped reaction.
BlankFetch ==
    /\ live.pc = "fetch_reactions" /\ live'.pc = "write_task"
    /\ MappedTrigger
    /\ live'.failed \/ NoMappedReaction(reactions[live.msg])

TriggeredWrite == live.pc = "write_task" /\ live' # live /\ MappedTrigger

\* C37: a live run with a mapped triggering emoji whose fetched list derives
\* Blank, the fetch having failed or having returned no mapped reaction, uses
\* the triggering emoji's status; the status used is the one the Task found is
\* set to, or the one a Task of the message is created with.
C37_TriggerIsTheFallback ==
    /\ [][BlankFetch =>
              live'.status = emoji_to_status(live.trigger, get_emoji_mappings)]_vars
    /\ [][TriggeredWrite =>
              /\ live.status # "Blank"
              /\ IF live.task # 0
                 THEN /\ Len(tasks') = Len(tasks)
                      /\ tasks'[live.task].status = live.status
                 ELSE /\ Len(tasks') = Len(tasks) + 1
                      /\ tasks'[Len(tasks')].status = live.status
                      /\ tasks'[Len(tasks')].message_id = live.message]_vars

\* The fetch succeeded and returned only an unmapped reaction; the run is about
\* to create the Task with the status of the eyes that triggered it.
C37_Witness ==
    /\ live.pc = "write_task" /\ ~live.failed /\ live.trigger = "eyes"
    /\ budget = MaxInputs - 2
    /\ reactions[live.msg] = <<[name |-> "tada", users |-> <<"X">>]>>
    /\ live.status = "InProgress" /\ live.task = 0

\* A step of run_periodic_sync itself (the channel scan before it is the
\* historical sync).
PassStep == per.pc \in {"scan", "fetch", "get_task", "write"} /\ per' # per

Refetched == /\ per.pc = "fetch" /\ per' # per
             /\ GMsgsOf(messages[Head(per.todo)]) # {}
             /\ per' # per_after_failed_fetch

OnlyStatusOf(i) ==
    /\ Len(tasks') = Len(tasks)
    /\ \A j \in DOMAIN tasks :
          /\ tasks'[j].assigned_by = tasks[j].assigned_by
          /\ tasks'[j].assigned_to = tasks[j].assigned_to
          /\ tasks'[j].message_id = tasks[j].message_id
          /\ j # i => tasks'[j].status = tasks[j].status

\* C38: a step of run_periodic_sync leaves the message rows alone, inserts no
\* task and changes no assigned_by; only its write step changes a task, the
\* one it found, and only its status, which it sets to the status of the
\* refetched list: Blank when that list holds no mapped emoji.
C38_PassOnlyCorrectsStatus ==
    /\ [][PassStep =>
              /\ messages' = messages
              /\ IF per.pc = "write"
                 THEN /\ OnlyStatusOf(per.task)
                      /\ tasks'[per.task].status = per.status
                 ELSE tasks' = tasks]_vars
    /\ [][(Refetched /\ NoMappedReaction(reactions[GMsgOf(messages[Head(per.todo)])]))
              => per'.pc = "get_task" /\ per'.status = "Blank"]_vars
    /\ [][(per.pc = "get_task" /\ per' # per
           /\ get_task_by_message_id(Head(per.todo)) # {})
              => /\ per'.pc = "write" /\ per'.status = per.status
                 /\ per'.task \in get_task_by_message_id(Head(per.todo))]_vars

\* The pass has set to Blank a task that keeps its owner: the syncs create no
\* Blank task.
C38_Witness ==
    /\ per.pc \in {"idle", "fetch"}
    /\ \E i \in DOMAIN tasks : /\ tasks[i].status = "Blank"
                                /\ tasks[i].assigned_by = "pV"
                                /\ reactions[GMsgOf(messages[tasks[i].message_id])] = <<>>

====
